---- MODULE Spec2Model ----
(***************************************************************************)
(* A model of the ezytube-downloader desktop application:                  *)
(*   - YouTubeDownloader.get_available_formats (core/downloader.py)        *)
(*   - DownloadHistory (core/history_repository.py)                        *)
(*   - YouTubeDownloader.download / cancel and its hooks                   *)
(*   - MainWindow's download orchestration (ui/main_window.py) and the     *)
(*     dependency check of main.py                                         *)
(***************************************************************************)
EXTENDS Integers, Sequences, FiniteSets, TLC

VARIABLES
    \* ---- get_available_formats -------------------------------------------
    fmt_pc,         \* "call" before the call, "done" after it returned
    fmt_query,      \* the library's answer: [ok |-> BOOLEAN, heights |-> Seq]
    fmt_formats,    \* the list get_available_formats returned
    \* ---- DownloadHistory --------------------------------------------------
    entries,        \* DownloadHistory._entries
    hist_file,      \* the entries history.json holds
    hist_disk_ok,   \* whether history.json can be written in this session
    hist_clock,     \* datetime.now(): the number of add_entry calls so far
    hist_last,      \* the last call made on the store, with the list it found
    \* ---- YouTubeDownloader (one instance) -------------------------------
    dl_pc,          \* where the thread running download() stands
    cancelled,      \* self._cancelled
    current_title,  \* self._current_title ("" for None)
    has_progress_cb,\* self._progress_callback is not None
    dl_audio_only,  \* download()'s audio_only argument
    dl_info,        \* the info_dict of the downloading extract_info call
    dl_exc,         \* str(e) of the exception the except clause holds
    dl_result,      \* the DownloadResult download() returned
    dl_hooks,       \* progress-hook invocations of this download() call
    hook_last,      \* the last progress-hook invocation and what it did
    progress,       \* the last DownloadProgress passed to the callback
    cancel_called,  \* whether cancel() was called since download() was called
    temp_files,     \* self._temp_files
    has_video_cb,   \* self._video_complete_callback is not None
    pp_hooks,       \* postprocessor-hook invocations of this download() call
    video_complete_calls, \* the calls of the video-complete callback, in order
    files,          \* the output directory: path -> mtime, 0 when absent
    fs_clock,       \* the time the running download() call started at
    removed,        \* the paths _cleanup_temp_files removed since download() was called
    \* ---- main.py: check_dependencies ---------------------------------------
    app_pc,         \* "check_deps", "installing", then "main" (the window is up)
    inst_pc,        \* where the do_install thread stands
    inst_status,    \* the text of the progress window's status label
    inst_ok,        \* install_result[0]
    inst_status_writer, \* the thread that wrote that label last
    \* ---- MainWindow --------------------------------------------------------
    url_entry,      \* the text of the URL field
    download_btn_enabled,
    cancel_btn_shown,
    cancel_btn_enabled,
    progress_bar,   \* [shown |-> BOOLEAN, value |-> percent]
    open_folder_shown,
    status_label,   \* the status line
    last_downloaded_file,
    chk_pc,         \* where the check_and_download thread stands
    chk_url,        \* the url that thread was started with
    dlthread_pc,    \* where the _download_video thread stands
    dlthread_url,   \* the url that thread was started with
    after_queue,    \* the calls scheduled with root.after(0, ...), oldest first
    attempts,       \* download attempts started so far
    overwrite_of,   \* the existing file the user chose to overwrite in this attempt
    \* ---- AppSettings --------------------------------------------------------
    set_pc,         \* "new", "saved" (save() has returned), "loaded"
    settings,       \* the AppSettings object: [download_dir, last_url]
    settings_file,  \* the bytes of settings.json, <<>> when there is no file
    settings_disk_ok, \* whether settings.json can be opened for writing
    settings_raised,  \* whether save() or load() let an exception out
    settings_loaded, \* the object AppSettings.load() returned
    \* ---- HistoryPanel -------------------------------------------------------
    fetch,          \* the format fetch of the window: [last_fetched_url, workers: the
                    \*  URLs of the fetch threads that run, queue: the scheduled
                    \*  _update_format_combo calls, available_formats,
                    \*  selected_format, combo_values, started]
    ff,             \* find_ffmpeg: [pc, platform, exists: the locations that hold
                    \*  the binary, result: the location returned]
    panel           \* [rows: the entries rendered, refreshed: refresh() was called,
                    \*  error: the exception the last refresh() let out, "" for none]

fmt_vars == <<fmt_pc, fmt_query, fmt_formats>>
hist_vars == <<entries, hist_file, hist_disk_ok, hist_clock, hist_last>>

dl_vars == <<dl_pc, cancelled, current_title, has_progress_cb, dl_audio_only, dl_info,
             dl_exc, dl_result, dl_hooks, hook_last, progress, cancel_called, temp_files>>
pp_vars == <<has_video_cb, pp_hooks, video_complete_calls>>
fs_vars == <<files, fs_clock, removed>>

inst_vars == <<app_pc, inst_pc, inst_status, inst_ok, inst_status_writer>>
widget_vars == <<download_btn_enabled, cancel_btn_shown, cancel_btn_enabled, progress_bar,
                 open_folder_shown, status_label, last_downloaded_file>>
win_vars == <<url_entry, widget_vars, chk_pc, chk_url, dlthread_pc, dlthread_url,
              after_queue, attempts, overwrite_of>>
app_vars == <<inst_vars, win_vars>>

set_vars == <<set_pc, settings, settings_file, settings_disk_ok, settings_raised,
              settings_loaded>>

vars == <<fmt_vars, hist_vars, dl_vars, pp_vars, fs_vars, app_vars, set_vars, panel, ff, fetch>>

(***************************************************************************)
(* get_available_formats                                                   *)
(***************************************************************************)

\* Longest list of format records the library reports in the model.
MaxFormats == 4

\* The allow-list of common resolutions (downloader.py line 189).
AllowedHeights == {2160, 1440, 1080, 720, 480, 360}

\* Heights a format record may carry; 0 stands for a record whose 'height'
\* is None, absent or 0 (all falsy in `if not height`).
LibraryHeights == AllowedHeights \cup {0, 144, 240}

RECURSIVE SeqsUpTo(_, _)
SeqsUpTo(S, n) ==
    IF n = 0 THEN {<<>>}
    ELSE LET shorter == SeqsUpTo(S, n - 1)
         IN  shorter \cup {Append(s, x) : s \in {t \in shorter : Len(t) = n - 1}, x \in S}

\* f"{height}" : the decimal digits of a positive integer.
RECURSIVE Digits(_)
Digits(n) == IF n < 10 THEN <<n>> ELSE Append(Digits(n \div 10), n % 10)

\* int(s) on a digit string.
RECURSIVE ParseInt(_)
ParseInt(ds) ==
    IF Len(ds) = 0 THEN 0
    ELSE 10 * ParseInt(SubSeq(ds, 1, Len(ds) - 1)) + ds[Len(ds)]

\* A resolution label: the digits followed by the suffix "p" for a video
\* entry, no digits and the whole label as the suffix for a synthetic entry.
ResolutionLabel(height) == [digits |-> Digits(height), suffix |-> "p"]

\* int(f.resolution.replace('p', '')) : the sort key of line 204.
SortKey(f) == ParseInt(f.resolution.digits)

BestFormat ==
    [format_id |-> [selector |-> "best", height |-> 0],
     resolution |-> [digits |-> <<>>, suffix |-> "Melhor disponivel"],
     ext |-> "mp4", has_audio |-> TRUE, has_video |-> TRUE]

AudioFormat ==
    [format_id |-> [selector |-> "bestaudio/best", height |-> 0],
     resolution |-> [digits |-> <<>>, suffix |-> "Apenas audio"],
     ext |-> "mp3", has_audio |-> TRUE, has_video |-> FALSE]

HeightFormat(height) ==
    [format_id |-> [selector |-> "bestvideo[height<=H]+bestaudio/best[height<=H]",
                    height |-> height],
     resolution |-> ResolutionLabel(height),
     ext |-> "mp4", has_audio |-> TRUE, has_video |-> TRUE]

\* A mutant of KeepHeight: the seen_resolutions test is dropped.
KeepHeight_NoDedup(height, seen) ==
    /\ height # 0
    /\ height \in AllowedHeights

\* Lines 185-190: whether the loop appends an entry for this record.
KeepHeight(height, seen) ==
    /\ ~ (height = 0 \/ height \in seen)
    /\ height \in AllowedHeights

\* Lines 183-201: the loop over info['formats'], left to right.
RECURSIVE CollectFormats(_, _, _)
CollectFormats(heights, seen, acc) ==
    IF Len(heights) = 0 THEN acc
    ELSE LET h == Head(heights)
         IN  IF KeepHeight(h, seen)
             THEN CollectFormats(Tail(heights), seen \cup {h}, Append(acc, HeightFormat(h)))
             ELSE CollectFormats(Tail(heights), seen, acc)

\* Insert x into a list sorted by descending key, after the entries whose key
\* is at least x's (sorted(..., reverse=True) is stable).
RECURSIVE InsertDesc(_, _)
InsertDesc(sorted, x) ==
    IF Len(sorted) = 0 THEN <<x>>
    ELSE IF SortKey(Head(sorted)) >= SortKey(x)
         THEN <<Head(sorted)>> \o InsertDesc(Tail(sorted), x)
         ELSE <<x>> \o sorted

RECURSIVE SortedDesc(_)
SortedDesc(fs) ==
    IF Len(fs) = 0 THEN <<>>
    ELSE InsertDesc(SortedDesc(SubSeq(fs, 1, Len(fs) - 1)), fs[Len(fs)])

\* Line 204: formats[1:] = sorted(formats[1:], key=..., reverse=True).
SortVideoFormats(fs) == SortedDesc(fs)

\* Lines 160-201: the list built when an exception leaves the try body.
\* raise_at 0: extract_info raised, nothing was appended; raise_at k: the
\* k-th record of info['formats'] is no dict and fmt.get raised, after the
\* best-available entry and the entries of the records before it.
partial_formats(query) ==
    IF query.raise_at = 0 THEN <<>>
    ELSE <<BestFormat>>
         \o CollectFormats(SubSeq(query.heights, 1, query.raise_at - 1), {}, <<>>)

\* A mutant of except_formats: the except clause keeps the list built so far.
except_formats_KeepsPartial(formats) == formats

\* Lines 214-219: the except clause assigns the one-element default,
\* whatever the list held.
except_formats(formats) == <<BestFormat>>

\* get_available_formats(url), lines 160-221. query.ok is FALSE when
\* an exception leaves the try body: the except branch returns the
\* one-element default.
get_available_formats(query) ==
    IF query.ok
    THEN <<BestFormat>>
         \o SortVideoFormats(CollectFormats(query.heights, {}, <<>>))
         \o <<AudioFormat>>
    ELSE except_formats(partial_formats(query))

\* Longest list of format records of a failing metadata query in the model.
MaxFailFormats == 2

\* The answers of the library: a list of records, or an exception, from
\* extract_info (raise_at 0) or at one of the records of its list.
FormatQueries ==
    {[ok |-> TRUE, heights |-> hs, raise_at |-> 0] : hs \in SeqsUpTo(LibraryHeights, MaxFormats)}
    \cup UNION {{[ok |-> FALSE, heights |-> hs, raise_at |-> k] : k \in 0..Len(hs)} :
                  hs \in SeqsUpTo(LibraryHeights, MaxFailFormats)}

FormatsInit ==
    /\ fmt_pc = "call"
    /\ fmt_query \in FormatQueries
    /\ fmt_formats = <<>>

\* The format lister before any call, with one fixed answer of the library.
FormatsIdle ==
    /\ fmt_pc = "call"
    /\ fmt_query = [ok |-> FALSE, heights |-> <<>>, raise_at |-> 0]
    /\ fmt_formats = <<>>

GetAvailableFormats ==
    /\ fmt_pc = "call"
    /\ fmt_formats' = get_available_formats(fmt_query)
    /\ fmt_pc' = "done"
    /\ UNCHANGED fmt_query

\* The entries strictly between the first and the last one.
MiddleFormats == SubSeq(fmt_formats, 2, Len(fmt_formats) - 1)

\* C1: whenever get_available_formats returns after a successful metadata
\* query, the first entry is the best-available entry, the last is the
\* audio-only entry (has_video false), and the entries between them have
\* strictly decreasing resolutions (so none twice), each in the allow-list.
C1_FormatListShape ==
    (fmt_pc = "done" /\ fmt_query.ok) =>
        /\ Len(fmt_formats) >= 2
        /\ fmt_formats[1].format_id.selector = "best"
        /\ fmt_formats[Len(fmt_formats)].format_id.selector = "bestaudio/best"
        /\ fmt_formats[Len(fmt_formats)].has_video = FALSE
        /\ \A i \in 1..Len(MiddleFormats) :
              /\ MiddleFormats[i].resolution.suffix = "p"
              /\ SortKey(MiddleFormats[i]) \in AllowedHeights
              /\ MiddleFormats[i].format_id.height = SortKey(MiddleFormats[i])
        /\ \A i \in 1..(Len(MiddleFormats) - 1) :
              SortKey(MiddleFormats[i]) > SortKey(MiddleFormats[i + 1])

\* C1 witness: the call returned for a library list that repeats a height,
\* lists heights in ascending order and holds a height outside the allow-list.
C1_Witness ==
    /\ fmt_pc = "done"
    /\ fmt_query.ok
    /\ fmt_query.heights = <<720, 144, 1080, 720>>
    /\ Len(fmt_formats) = 4

\* C19: whenever get_available_formats returns after a failure of the
\* metadata query, the list is exactly the best-available entry: one
\* element, format_id 'best', no audio-only entry and nothing of the list
\* built before the failure.
C19_FailureGivesBestOnly ==
    (fmt_pc = "done" /\ ~ fmt_query.ok) =>
        /\ Len(fmt_formats) = 1
        /\ fmt_formats[1].format_id.selector = "best"
        /\ \A i \in 1..Len(fmt_formats) :
              /\ fmt_formats[i].has_video
              /\ fmt_formats[i].format_id.selector # "bestaudio/best"
              /\ fmt_formats[i].resolution.suffix # "p"

\* C19 witness: the call returned after the second record of the library's
\* list raised, when the list already held the best-available entry and
\* the 720p entry.
C19_Witness ==
    /\ fmt_pc = "done"
    /\ ~ fmt_query.ok
    /\ fmt_query.raise_at = 2
    /\ fmt_query.heights = <<720, 1080>>
    /\ Len(partial_formats(fmt_query)) = 2
    /\ fmt_formats = <<BestFormat>>

(***************************************************************************)
(* DownloadHistory                                                         *)
(***************************************************************************)

\* self._entries[:100] (history_repository.py line 83).
HistoryCap == 100

\* Most add_entry calls in one run of the model.
MaxAdds == 3

\* Longest hand-written history.json with repeated paths the store loads.
MaxFileLen == 3

\* No path: get_last_file_path's None, DownloadResult.file_path's None.
NoPath == 0

NoEntry == [title |-> "", url |-> "", file_path |-> NoPath, download_date |-> 0,
            file_size |-> 0]

\* DownloadEntry(title, url, file_path, download_date, file_size); a
\* file_size of 0 stands for None.
DownloadEntry(title, url, file_path, download_date, file_size) ==
    [title |-> title, url |-> url, file_path |-> file_path,
     download_date |-> download_date, file_size |-> file_size]

\* An entry written by an earlier session: its date is before every date of
\* this session.
OldEntry(path) == DownloadEntry("old", "u0", path, 0, 0)

\* A history.json holding n entries with the distinct paths 1..n.
DistinctFile(n) == [i \in 1..n |-> OldEntry(i)]

\* The history.json files the store is constructed from: short ones that
\* repeat paths, and long ones around the cap.
HistoryFiles ==
    {[i \in 1..Len(ps) |-> OldEntry(ps[i])] : ps \in SeqsUpTo({1, 2}, MaxFileLen)}
    \cup {DistinctFile(n) : n \in {HistoryCap, HistoryCap + 1}}

\* The paths add_entry and remove_entry are called with: the head and the
\* tail of a full list, and a path no file holds.
CallPaths == {1, HistoryCap, HistoryCap + 2}

CallTitles == {"a", "b"}

\* _remove_duplicates, lines 51-56: the loop keeps an entry when no earlier
\* entry has its path (seen_paths holds the paths of the earlier entries).
FirstOfPath(es) ==
    {i \in 1..Len(es) : \A j \in 1..(i - 1) : es[j].file_path # es[i].file_path}

remove_duplicates(es) ==
    LET kept == FirstOfPath(es)
    IN  [k \in 1..Cardinality(kept) |->
            es[CHOOSE i \in kept : Cardinality({j \in kept : j <= i}) = k]]

\* A mutant of WithoutPath: nothing is removed.
WithoutPath_KeepAll(es, file_path) == es

\* [e for e in self._entries if e.file_path != file_path], lines 73 and 98.
WithoutPath(es, file_path) == SelectSeq(es, LAMBDA e : e.file_path # file_path)

\* A mutant of InsertFront: the entry is appended.
InsertFront_Append(es, entry) == Append(es, entry)

\* self._entries.insert(0, entry), line 82.
InsertFront(es, entry) == <<entry>> \o es

\* A mutant of Truncate: the last 100 entries are kept.
Truncate_KeepTail(es) ==
    IF Len(es) <= HistoryCap THEN es ELSE SubSeq(es, Len(es) - HistoryCap + 1, Len(es))

\* self._entries[:100], line 83.
Truncate(es) == IF Len(es) <= HistoryCap THEN es ELSE SubSeq(es, 1, HistoryCap)

\* add_entry's new list, lines 73-83.
add_entry(es, entry) == Truncate(InsertFront(WithoutPath(es, entry.file_path), entry))

\* get_last_file_path, lines 90-94.
get_last_file_path(es) == IF Len(es) > 0 THEN es[1].file_path ELSE NoPath

\* A mutant of save_raises: _save without its except clause.
save_raises_NoCatch(disk_ok) == ~ disk_ok

\* _save, lines 64-69: whether the call lets an exception out; the except
\* clause swallows the failure of open() or of the write.
save_raises(disk_ok) == FALSE

\* _save, lines 62-69: the file takes the list, or the write fails and the
\* exception is swallowed. A session's history.json is writable or it is not
\* (a read-only data directory).
Saved(file, es) == IF hist_disk_ok THEN es ELSE file

\* DownloadHistory(), lines 33-36: _load, then _remove_duplicates, which
\* saves when it dropped something.
HistoryLoaded(file) ==
    /\ entries = remove_duplicates(file)
    /\ hist_file = IF Len(remove_duplicates(file)) # Len(file)
                   THEN Saved(file, remove_duplicates(file))
                   ELSE file
    /\ hist_clock = 0
    /\ hist_last = [op |-> "load", entry |-> NoEntry, before |-> file,
                    raised |-> IF Len(remove_duplicates(file)) # Len(file)
                               THEN save_raises(hist_disk_ok) ELSE FALSE]

HistoryInit ==
    /\ hist_disk_ok \in BOOLEAN
    /\ \E file \in HistoryFiles : HistoryLoaded(file)

\* The store constructed when no history.json exists.
HistoryEmpty ==
    /\ hist_disk_ok = TRUE
    /\ HistoryLoaded(<<>>)

\* add_entry(title, url, file_path, file_size), lines 71-84.
AddEntryCall(title, url, file_path, file_size) ==
    LET entry == DownloadEntry(title, url, file_path, hist_clock + 1, file_size)
    IN  /\ hist_clock < MaxAdds
        /\ hist_clock' = hist_clock + 1
        /\ entries' = add_entry(entries, entry)
        /\ hist_file' = Saved(hist_file, entries')
        /\ hist_last' = [op |-> "add", entry |-> entry, before |-> entries,
                         raised |-> save_raises(hist_disk_ok)]
        /\ UNCHANGED hist_disk_ok

AddEntry ==
    \E title \in CallTitles, file_path \in CallPaths :
        AddEntryCall(title, "u1", file_path, 0)

\* remove_entry(file_path), lines 96-99.
RemoveEntryCall(file_path) ==
    /\ entries' = WithoutPath(entries, file_path)
    /\ hist_file' = Saved(hist_file, entries')
    /\ hist_last' = [op |-> "remove", entry |-> [NoEntry EXCEPT !.file_path = file_path],
                     before |-> <<>>, raised |-> save_raises(hist_disk_ok)]
    /\ UNCHANGED <<hist_clock, hist_disk_ok>>

RemoveEntry == \E file_path \in CallPaths : RemoveEntryCall(file_path)

\* clear(), lines 101-104.
ClearCall ==
    /\ entries' = <<>>
    /\ hist_file' = Saved(hist_file, entries')
    /\ hist_last' = [op |-> "clear", entry |-> NoEntry, before |-> <<>>,
                     raised |-> save_raises(hist_disk_ok)]
    /\ UNCHANGED <<hist_clock, hist_disk_ok>>

Clear == ClearCall

\* The entries the last call found, less those of the path it was called with.
OthersBefore ==
    SelectSeq(hist_last.before, LAMBDA e : e.file_path # hist_last.entry.file_path)

\* The positions of the entries of a path.
PositionsOf(file_path) == {i \in 1..Len(entries) : entries[i].file_path = file_path}

\* C4: in every state of the store no two entries share a file_path, entries
\* added later come before entries added earlier (and before the entries
\* loaded from the file), and right after add_entry the new entry is at
\* index 0 and get_last_file_path returns its path.
C4_UniqueNewestFirst ==
    /\ Cardinality({entries[i].file_path : i \in 1..Len(entries)}) = Len(entries)
    /\ \A i \in 1..(Len(entries) - 1) :
          \/ entries[i].download_date > entries[i + 1].download_date
          \/ \A j \in (i + 1)..Len(entries) : entries[j].download_date = 0
    /\ hist_last.op = "add" =>
          /\ entries[1] = hist_last.entry
          /\ get_last_file_path(entries) = hist_last.entry.file_path

\* C4 witness: the store was loaded from a file, an entry was added and
\* removed again, and a later add_entry put its entry before an older one.
C4_Witness ==
    /\ hist_last.op = "add"
    /\ hist_clock = 3
    /\ Len(entries) >= 2
    /\ entries[2].download_date = 1
    /\ get_last_file_path(entries) = HistoryCap + 2

\* C5: right after add_entry for a path, the list holds exactly one entry
\* for that path, and it carries this call's title, url, file_size and date,
\* whatever was added for the path before.
C5_ReAddReplaces ==
    hist_last.op = "add" =>
        /\ Cardinality(PositionsOf(hist_last.entry.file_path)) = 1
        /\ \A i \in PositionsOf(hist_last.entry.file_path) : entries[i] = hist_last.entry

\* C5 witness: the path was added with title "a", another path was added,
\* and the path was added again with title "b".
C5_Witness ==
    /\ hist_last.op = "add"
    /\ hist_last.entry.title = "b"
    /\ hist_last.entry.download_date = 3
    /\ \E i \in 1..Len(hist_last.before) :
          /\ hist_last.before[i].file_path = hist_last.entry.file_path
          /\ hist_last.before[i].title = "a"
          /\ hist_last.before[i].download_date = 1
    /\ hist_last.before[1].download_date = 2

\* C6: right after add_entry the list holds at most 100 entries: the new
\* entry first, then the entries the call found (less the one of the same
\* path) in their order, cut at the tail.
C6_CapDropsOldest ==
    hist_last.op = "add" =>
        /\ Len(entries) <= HistoryCap
        /\ Len(entries) = (IF Len(OthersBefore) + 1 <= HistoryCap
                           THEN Len(OthersBefore) + 1 ELSE HistoryCap)
        /\ entries[1] = hist_last.entry
        /\ \A i \in 2..Len(entries) : entries[i] = OthersBefore[i - 1]

\* C6 witness: add_entry was called with a new path on a list that already
\* held 100 entries, and the last of them is gone.
C6_Witness ==
    /\ hist_last.op = "add"
    /\ Len(OthersBefore) = HistoryCap
    /\ Len(entries) = HistoryCap
    /\ \A i \in 1..Len(entries) :
          entries[i].file_path # hist_last.before[HistoryCap].file_path

\* C30: the store holds at most 100 entries in every state, right after
\* its construction from a history.json included, and so does the file it
\* has written.
C30_CapHoldsFromConstruction ==
    /\ Len(entries) <= HistoryCap
    /\ hist_last.op # "load" => Len(hist_file) <= HistoryCap

(***************************************************************************)
(* The output directory                                                    *)
(***************************************************************************)

\* The files the output directory may hold, by path; a name is the list of
\* its dot-separated parts.
FileName ==
    [p \in 1..8 |->
        CASE p = 1 -> <<"video", "mp4">>            \* the video output
          [] p = 2 -> <<"video", "mp3">>            \* the audio-only output
          [] p = 3 -> <<"old", "mp4">>              \* an earlier download
          [] p = 4 -> <<"my", "file", "mp4">>       \* an earlier download, title "my.file"
          [] p = 5 -> <<"video", "f137", "mp4">>    \* a per-format intermediate
          [] p = 6 -> <<"video", "mp4", "part">>    \* a partial download
          [] p = 7 -> <<"video", "mp4", "ytdl">>    \* the library's resume record
          [] p = 8 -> <<"video", "temp">>]          \* a post-processing scratch file

DirPaths == DOMAIN FileName

VideoPath == 1
AudioPath == 2
IntermediatePath == 5
PartPath == 6
YtdlPath == 7
TempPath == 8

\* A path the library may report that names no file of the directory.
MissingPath == 9

\* The last part of a name: what file.endswith('.mp4') and '*.part' test.
Extension(p) == FileName[p][Len(FileName[p])]

\* Whether a part of a name starts with the letter f.
StartsWithF(part) == part \in {"f137", "file"}

\* os.path.exists(path) for a path of the output directory.
Exists(fs, p) == p \in DirPaths /\ fs[p] # 0

\* glob's '*.f*.<ext>': the name ends in .<ext> and an earlier part, after
\* the first dot, starts with f.
MatchesFormatGlob(p, ext) ==
    /\ Extension(p) = ext
    /\ \E k \in 2..(Len(FileName[p]) - 1) : StartsWithF(FileName[p][k])

\* temp_patterns, lines 127-134.
MatchesTempPattern(p) ==
    \/ Extension(p) \in {"part", "ytdl", "temp"}
    \/ \E ext \in {"mp4", "webm", "m4a"} : MatchesFormatGlob(p, ext)

\* A mutant of cleanup_temp_files: only the partial downloads go.
cleanup_temp_files_PartOnly(fs) ==
    [p \in DirPaths |-> IF Extension(p) = "part" THEN 0 ELSE fs[p]]

\* _cleanup_temp_files, lines 114-142: self._temp_files is never appended
\* to, so only the pattern-matched files go.
cleanup_temp_files(fs) == [p \in DirPaths |-> IF MatchesTempPattern(p) THEN 0 ELSE fs[p]]

\* A call of self._cleanup_temp_files(): the files go, the tracked list is
\* cleared (line 142).
CleanupTempFiles ==
    /\ files' = cleanup_temp_files(files)
    /\ temp_files' = <<>>
    /\ removed' = removed \cup {p \in DirPaths : files[p] # 0 /\ cleanup_temp_files(files)[p] = 0}

\* A mutant of find_most_recent_file: any file counts, not only .mp4 ones.
find_most_recent_file_AnyExt(fs) ==
    LET present == {p \in DirPaths : fs[p] # 0}
    IN  IF present = {} THEN NoPath
        ELSE CHOOSE p \in present : \A q \in present : fs[q] <= fs[p]

\* _find_most_recent_file, lines 377-392: the .mp4 file with the greatest
\* mtime, None when the directory holds none.
find_most_recent_file(fs) ==
    LET mp4_files == {p \in DirPaths : fs[p] # 0 /\ Extension(p) = "mp4"}
    IN  IF mp4_files = {} THEN NoPath
        ELSE CHOOSE p \in mp4_files : \A q \in mp4_files : fs[q] <= fs[p]

\* check_file_exists(title) for the title "video", lines 104-107.
check_file_exists(fs) == IF Exists(fs, VideoPath) THEN VideoPath ELSE NoPath

\* The directories a download starts in: any of the earlier downloads may be
\* there, each with its own mtime.
InitialDirs ==
    {[p \in DirPaths |-> IF p \in old THEN p ELSE 0] : old \in SUBSET {1, 3, 4}}

FsInit ==
    /\ files \in InitialDirs
    /\ fs_clock = 10
    /\ removed = {}

\* An empty output directory.
FsEmpty ==
    /\ files = [p \in DirPaths |-> 0]
    /\ fs_clock = 10
    /\ removed = {}

(***************************************************************************)
(* HistoryPanel                                                            *)
(***************************************************************************)

\* The methods class DownloadHistory defines, history_repository.py lines
\* 33-104.
DownloadHistoryMethods ==
    {"__init__", "_load", "_remove_duplicates", "_save", "add_entry", "get_entries",
     "get_last_file_path", "remove_entry", "clear"}

\* HistoryPanel.__init__, lines 22-29: nothing is rendered until the first
\* refresh.
PanelNew == panel = [rows |-> <<>>, refreshed |-> FALSE, error |-> ""]

\* refresh(), lines 159-192: the panel afterwards. The call of
\* self._history.validate_entries() comes first; an attribute the store does
\* not have raises AttributeError and nothing of the panel is rebuilt.
refresh(pnl, es) ==
    IF "validate_entries" \notin DownloadHistoryMethods
    THEN [rows |-> pnl.rows, refreshed |-> TRUE, error |-> "AttributeError"]
    ELSE [rows |-> es, refreshed |-> TRUE, error |-> ""]

\* The refresh button (line 79) or the expanding toggle (line 144).
Refresh ==
    /\ panel' = refresh(panel, entries)
    /\ UNCHANGED hist_vars

\* C17: a refresh of the history panel completes and shows only entries
\* whose file exists (the store's validate_entries having dropped the
\* others).
C17_RefreshShowsExistingFiles ==
    panel.refreshed =>
        /\ panel.error = ""
        /\ \A i \in 1..Len(panel.rows) : Exists(files, panel.rows[i].file_path)

(***************************************************************************)
(* YouTubeDownloader.download, cancel and the progress hook                *)
(***************************************************************************)

\* Most progress-hook invocations during one download() call.
MaxHooks == 2

NoResult == [success |-> FALSE, file_path |-> NoPath, title |-> "", error_message |-> "",
             returned |-> FALSE]

\* DownloadResult(success, file_path, title, error_message); "" stands for None.
DownloadResult(success, file_path, title, error_message) ==
    [success |-> success, file_path |-> file_path, title |-> title,
     error_message |-> error_message, returned |-> TRUE]

\* Lines 251-254, 263-266 and 286-289.
CancelResult == DownloadResult(FALSE, NoPath, "", "Download cancelado")

NoInfo == [has_requested |-> FALSE, filepath |-> NoPath, ext |-> "", title |-> ""]

\* A key the library's status record does not have.
Absent == -1

\* A key the library's record holds with the value None.
Null == -2

NoData == [status |-> "", downloaded_bytes |-> Absent, total_bytes |-> Absent,
           total_bytes_estimate |-> Absent]

NoHook == [flag |-> FALSE, raised |-> FALSE, forwarded |-> FALSE, calls |-> 0,
           data |-> NoData]

NoProgress == [status |-> "", percentage |-> 0, downloaded_bytes |-> 0, total_bytes |-> 0]

\* The exception texts of the library.
LibraryErrors == {"network error"}

\* The status records the library passes to the progress hook: total_bytes
\* 0 stands for a total that is 0 or absent.
HookData ==
    {[status |-> st, downloaded_bytes |-> d, total_bytes |-> t,
      total_bytes_estimate |-> Absent] :
        st \in {"downloading", "finished"}, d \in {1}, t \in {0, 2}}

\* Most bytes of a download in the progress events below.
MaxBytes == 3

\* The status records of the library in full: each byte count may be
\* absent, a total may be None (a length the server did not announce), and
\* the downloaded count may exceed an estimated total.
ProgressEvents ==
    {[status |-> st, downloaded_bytes |-> d, total_bytes |-> t,
      total_bytes_estimate |-> e] :
        st \in {"downloading", "finished"}, d \in {Absent} \cup 0..MaxBytes,
        t \in {Absent, Null, 0, 2}, e \in {Absent, Null, 0, 2}}

\* YouTubeDownloader(...), lines 48-55.
DownloaderNew(progress_callback) ==
    /\ dl_pc = "idle"
    /\ cancelled = FALSE
    /\ current_title = ""
    /\ has_progress_cb = progress_callback
    /\ dl_audio_only = FALSE
    /\ dl_info = NoInfo
    /\ dl_exc = ""
    /\ dl_result = NoResult
    /\ dl_hooks = 0
    /\ hook_last = NoHook
    /\ progress = NoProgress
    /\ cancel_called = FALSE
    /\ temp_files = <<>>

DownloaderInit == \E cb \in BOOLEAN : DownloaderNew(cb)

\* The video-complete callback of YouTubeDownloader(...), line 50.
PostprocessNew(video_complete_callback) ==
    /\ has_video_cb = video_complete_callback
    /\ pp_hooks = 0
    /\ video_complete_calls = <<>>

\* A download() call is under way: its thread was started and it has not
\* produced its result.
DownloadUnderWay == dlthread_pc = "start" \/ dl_pc \notin {"idle", "done"}

\* cancel(), lines 109-112, on whatever thread calls it.
CancelCall ==
    /\ cancelled' = TRUE
    /\ CleanupTempFiles
    /\ cancel_called' = (cancel_called \/ DownloadUnderWay)
    /\ UNCHANGED <<dl_pc, current_title, has_progress_cb, dl_audio_only, dl_info, dl_exc,
                   dl_result, dl_hooks, hook_last, progress, fs_clock>>

\* The mtimes a download() call gives its files lie in a window of their
\* own, after the windows of the earlier calls.
TimePerDownload == 10

\* download(url, format_id, audio_only) is called, line 223.
DownloadCall(audio_only) ==
    /\ dl_pc = "idle"
    /\ dl_pc' = "reset"
    /\ dl_audio_only' = audio_only
    /\ fs_clock' = fs_clock + TimePerDownload
    /\ removed' = {}
    /\ UNCHANGED <<cancelled, current_title, has_progress_cb, dl_info, dl_exc, dl_result,
                   dl_hooks, hook_last, progress, cancel_called, temp_files, files>>

\* A mutant of reset_cancelled: the flag is left as it is.
reset_cancelled_Keep(flag) == flag

\* reset()'s self._cancelled = False, line 146.
reset_cancelled(flag) == FALSE

\* self.reset(), line 236 (lines 144-148).
DlReset ==
    /\ dl_pc = "reset"
    /\ cancelled' = reset_cancelled(cancelled)
    /\ temp_files' = <<>>
    /\ current_title' = ""
    /\ dl_pc' = "info"
    /\ UNCHANGED <<has_progress_cb, dl_audio_only, dl_info, dl_exc, dl_result, dl_hooks,
                   hook_last, progress, cancel_called>>
    /\ UNCHANGED fs_vars

\* Lines 239-246: makedirs, _build_options and the metadata-only
\* extract_info, which returns the title.
DlInfoReturns ==
    /\ dl_pc = "info"
    /\ current_title' = "video"
    /\ dl_pc' = "check1"
    /\ UNCHANGED <<cancelled, has_progress_cb, dl_audio_only, dl_info, dl_exc, dl_result,
                   dl_hooks, hook_last, progress, cancel_called, temp_files>>
    /\ UNCHANGED fs_vars

\* Lines 239-245: makedirs or the metadata-only extract_info raises.
DlInfoRaises ==
    /\ dl_pc = "info"
    /\ \E text \in LibraryErrors : dl_exc' = text
    /\ dl_pc' = "except"
    /\ UNCHANGED <<cancelled, current_title, has_progress_cb, dl_audio_only, dl_info,
                   dl_result, dl_hooks, hook_last, progress, cancel_called, temp_files>>
    /\ UNCHANGED fs_vars

\* A mutant of DlCheckCancelled: download() goes on without looking at the
\* flag.
DlCheckCancelled_NoCheck(at, next) ==
    /\ dl_pc = at
    /\ dl_pc' = next
    /\ UNCHANGED <<files, temp_files, removed, dl_result>>
    /\ UNCHANGED <<cancelled, current_title, has_progress_cb, dl_audio_only, dl_info, dl_exc,
                   dl_hooks, hook_last, progress, cancel_called, fs_clock>>

\* Lines 249-254 and 261-266: the check of the flag after an extract_info.
DlCheckCancelled(at, next) ==
    /\ dl_pc = at
    /\ IF cancelled
       THEN /\ CleanupTempFiles
            /\ dl_result' = CancelResult
            /\ dl_pc' = "done"
       ELSE /\ dl_pc' = next
            /\ UNCHANGED <<files, temp_files, removed, dl_result>>
    /\ UNCHANGED <<cancelled, current_title, has_progress_cb, dl_audio_only, dl_info, dl_exc,
                   dl_hooks, hook_last, progress, cancel_called, fs_clock>>

DlCheckBeforeDownload == DlCheckCancelled("check1", "downloading")

DlCheckAfterDownload == DlCheckCancelled("check2", "resolve")

\* The library, inside extract_info(url, download=True), writes the partial
\* file and a per-format intermediate.
LibWritesTemp ==
    /\ dl_pc = "downloading"
    /\ \E p \in {PartPath, IntermediatePath, YtdlPath, TempPath} :
          /\ files[p] = 0
          /\ files' = [files EXCEPT ![p] = fs_clock + 1]
    /\ UNCHANGED <<dl_vars, fs_clock, removed>>

\* data.get(key, 0), lines 355 and 372-373.
GetOrZero(value) == IF value = Absent THEN 0 ELSE value

\* Line 354: data.get('total_bytes') or data.get('total_bytes_estimate', 0).
TotalBytes(data) ==
    IF data.total_bytes \notin {Absent, Null, 0}
    THEN data.total_bytes
    ELSE GetOrZero(data.total_bytes_estimate)

\* Line 356: 'total_bytes > 0' on a total that is None raises TypeError.
TypeErrorText == "'>' not supported between instances of 'NoneType' and 'int'"
compare_raises(data) == data.status = "downloading" /\ TotalBytes(data) = Null

\* A mutant of Percentage: an unknown total counts as a finished download.
Percentage_UnknownIsDone(downloaded_bytes, total_bytes) ==
    IF total_bytes > 0 THEN (downloaded_bytes * 100) \div total_bytes ELSE 100

\* Line 356 (whole percent).
Percentage(downloaded_bytes, total_bytes) ==
    IF total_bytes > 0 THEN (downloaded_bytes * 100) \div total_bytes ELSE 0

\* Lines 354-365: the record the hook builds for a 'downloading' event.
DownloadingProgress(data) ==
    [status |-> "downloading",
     percentage |-> Percentage(GetOrZero(data.downloaded_bytes), TotalBytes(data)),
     downloaded_bytes |-> GetOrZero(data.downloaded_bytes),
     total_bytes |-> TotalBytes(data)]

\* Lines 369-374.
FinishedProgress(data) ==
    [status |-> "finished", percentage |-> 100,
     downloaded_bytes |-> GetOrZero(data.downloaded_bytes),
     total_bytes |-> GetOrZero(data.total_bytes)]

\* A mutant of hook_raises: the callback test comes before the flag test.
hook_raises_CallbackFirst(flag, has_cb) == flag /\ has_cb

\* Lines 347-348: whether _on_progress raises DownloadError.
hook_raises(flag, has_cb) == flag

\* _on_progress(data), lines 344-375, called by the library on the thread
\* that runs download(). When it raises, extract_info raises the error.
DlProgressHookOn(events) ==
    /\ dl_pc = "downloading"
    /\ dl_hooks < MaxHooks
    /\ dl_hooks' = dl_hooks + 1
    /\ \E data \in events :
          IF hook_raises(cancelled, has_progress_cb)
          THEN /\ dl_exc' = "Download cancelado"
               /\ dl_pc' = "except"
               /\ hook_last' = [flag |-> cancelled, raised |-> TRUE, forwarded |-> FALSE,
                                calls |-> dl_hooks + 1, data |-> data]
               /\ UNCHANGED progress
          ELSE IF has_progress_cb /\ compare_raises(data)
          THEN /\ dl_exc' = TypeErrorText
               /\ dl_pc' = "except"
               /\ hook_last' = [flag |-> cancelled, raised |-> TRUE, forwarded |-> FALSE,
                                calls |-> dl_hooks + 1, data |-> data]
               /\ UNCHANGED progress
          ELSE /\ progress' = IF ~ has_progress_cb THEN progress
                              ELSE IF data.status = "downloading"
                                   THEN DownloadingProgress(data)
                                   ELSE FinishedProgress(data)
               /\ hook_last' = [flag |-> cancelled, raised |-> FALSE,
                                forwarded |-> has_progress_cb, calls |-> dl_hooks + 1,
                                data |-> data]
               /\ UNCHANGED <<dl_pc, dl_exc>>
    /\ UNCHANGED <<cancelled, current_title, has_progress_cb, dl_audio_only, dl_info,
                   dl_result, cancel_called, temp_files>>
    /\ UNCHANGED fs_vars

\* The hook on the status records of a download with known byte counts.
DlProgressHook == DlProgressHookOn(HookData)

\* The downloading extract_info raises an error of the library's own.
LibRaises ==
    /\ dl_pc = "downloading"
    /\ \E text \in LibraryErrors : dl_exc' = text
    /\ dl_pc' = "except"
    /\ UNCHANGED <<cancelled, current_title, has_progress_cb, dl_audio_only, dl_info,
                   dl_result, dl_hooks, hook_last, progress, cancel_called, temp_files>>
    /\ UNCHANGED fs_vars

\* The output path the library writes: <title>.mp3 after FFmpegExtractAudio,
\* <title>.mp4 otherwise (_build_options, lines 314-326).
OutputPath(audio_only) == IF audio_only THEN AudioPath ELSE VideoPath

\* The downloading extract_info returns (line 257). The library has renamed
\* its partial file to the output, or has written nothing (every item of a
\* playlist skipped); its info_dict has a requested_downloads record with a
\* filepath, with none, with one that names no file, or has no such record.
LibReturns ==
    /\ dl_pc = "downloading"
    /\ \E wrote \in BOOLEAN,
          info \in {[has_requested |-> TRUE, filepath |-> OutputPath(dl_audio_only),
                     ext |-> "mp4", title |-> "video"],
                    [has_requested |-> TRUE, filepath |-> NoPath,
                     ext |-> "mp4", title |-> "video"],
                    [has_requested |-> TRUE, filepath |-> MissingPath,
                     ext |-> "mp4", title |-> "video"],
                    [has_requested |-> FALSE, filepath |-> NoPath,
                     ext |-> "mp4", title |-> "video"]} :
          /\ dl_info' = info
          /\ files' = IF wrote
                      THEN [files EXCEPT ![OutputPath(dl_audio_only)] = fs_clock + 2,
                                         ![PartPath] = 0, ![IntermediatePath] = 0,
                                         ![YtdlPath] = 0, ![TempPath] = 0]
                      ELSE files
    /\ dl_pc' = "check2"
    /\ UNCHANGED <<cancelled, current_title, has_progress_cb, dl_audio_only, dl_exc,
                   dl_result, dl_hooks, hook_last, progress, cancel_called, temp_files, fs_clock, removed>>

\* Lines 268-272: the path the info_dict gives; <title>.<ext> names the
\* video output for the title and the ext of the model.
ReportedPath(info) == IF info.has_requested THEN info.filepath ELSE VideoPath

\* A mutant of resolve_path: the reported path is not tested for existence.
resolve_path_NoExistsCheck(info, fs) ==
    IF ReportedPath(info) = NoPath THEN find_most_recent_file(fs) ELSE ReportedPath(info)

\* Lines 268-275: the reported path, or the fallback when it is None or
\* names no file.
resolve_path(info, fs) ==
    IF ReportedPath(info) = NoPath \/ ~ Exists(fs, ReportedPath(info))
    THEN find_most_recent_file(fs)
    ELSE ReportedPath(info)

\* Lines 268-281.
DlResolve ==
    /\ dl_pc = "resolve"
    /\ dl_result' = DownloadResult(TRUE, resolve_path(dl_info, files), dl_info.title, "")
    /\ dl_pc' = "done"
    /\ UNCHANGED <<cancelled, current_title, has_progress_cb, dl_audio_only, dl_info, dl_exc,
                   dl_hooks, hook_last, progress, cancel_called, temp_files>>
    /\ UNCHANGED fs_vars

\* A mutant of except_result: the flag is not looked at.
except_result_NoFlag(flag, text) == DownloadResult(FALSE, NoPath, "", text)

\* Lines 283-293: the result the except clause returns.
except_result(flag, text) ==
    IF flag THEN CancelResult ELSE DownloadResult(FALSE, NoPath, "", text)

\* The except clause, lines 283-293.
DlExcept ==
    /\ dl_pc = "except"
    /\ IF cancelled THEN CleanupTempFiles ELSE UNCHANGED <<files, temp_files, removed>>
    /\ dl_result' = except_result(cancelled, dl_exc)
    /\ dl_pc' = "done"
    /\ UNCHANGED <<cancelled, current_title, has_progress_cb, dl_audio_only, dl_info, dl_exc,
                   dl_hooks, hook_last, progress, cancel_called, fs_clock>>

\* Most postprocessor-hook invocations in one download() call.
MaxPostprocess == 3

\* Most items of a playlist.
MaxItems == 2

\* The records the library passes to the postprocessor hook: every
\* postprocessor of an item reports 'started' and 'finished', with the
\* item's info_dict (title, webpage_url, filepath).
PostprocessData ==
    {[status |-> st, postprocessor |-> pp, title |-> <<"title", item>>,
      webpage_url |-> <<"url", item>>, filepath |-> fp] :
        st \in {"started", "finished"}, pp \in {"Merger", "VideoConvertor"},
        item \in 1..MaxItems, fp \in {NoPath, VideoPath}}

\* The library, inside extract_info(url, download=True), has written an
\* item's output file; post-processing follows.
LibWritesOutput ==
    /\ dl_pc = "downloading"
    /\ files[VideoPath] = 0
    /\ files' = [files EXCEPT ![VideoPath] = fs_clock + 2]
    /\ UNCHANGED <<dl_vars, pp_vars, fs_clock, removed>>

\* _on_postprocess(data), lines 333-342, called by the library on the thread
\* that runs download(), once for every status a postprocessor reports.
DlPostprocessHook ==
    /\ dl_pc = "downloading"
    /\ pp_hooks < MaxPostprocess
    /\ pp_hooks' = pp_hooks + 1
    /\ \E data \in PostprocessData :
          video_complete_calls' =
             IF /\ data.status = "finished"
                /\ has_video_cb
                /\ data.filepath # NoPath
                /\ Exists(files, data.filepath)
             THEN Append(video_complete_calls,
                         [title |-> data.title, url |-> data.webpage_url,
                          file_path |-> data.filepath])
             ELSE video_complete_calls
    /\ UNCHANGED <<has_video_cb, dl_vars, fs_vars>>

\* The step of download() that returns a success result (lines 277-281).
ReturnsSuccess == dl_pc = "resolve" /\ dl_pc' = "done"

C9_ExceptionResult ==
    [][/\ dl_exc' # dl_exc => (dl_pc' = "except" \/ dl_pc' = "idle")
       /\ dl_pc = "except" =>
             /\ dl_pc' \in {"except", "done"}
             /\ dl_pc' = "done" =>
                   /\ dl_result'.returned
                   /\ dl_result'.success = FALSE
                   /\ dl_result'.error_message =
                         (IF cancelled THEN "Download cancelado" ELSE dl_exc)]_vars

\* C9 witness: the library raised an error of its own, cancel() was called
\* before the except clause ran, and the result is the cancellation result.
C9_Witness ==
    /\ dl_pc = "done"
    /\ dl_exc = "network error"
    /\ cancelled
    /\ dl_result = CancelResult

\* C10: a progress-hook invocation that finds the cancellation flag set
\* raises (the library call is aborted into the except clause) and passes no
\* record to the callback, with or without a registered callback.
C10_HookRaisesWhenCancelled ==
    [][(dl_hooks' = dl_hooks + 1 /\ cancelled) =>
          /\ dl_pc' = "except"
          /\ dl_exc' = "Download cancelado"
          /\ hook_last'.raised
          /\ ~ hook_last'.forwarded
          /\ progress' = progress]_vars

\* C10 witness: the hook raised on a downloader with no progress callback.
C10_Witness ==
    /\ hook_last.calls > 0
    /\ hook_last.flag
    /\ hook_last.raised
    /\ ~ has_progress_cb
    /\ dl_pc = "except"

\* A temporary artifact: a partial download, a resume record, a scratch file
\* or a per-format intermediate.
TemporaryArtifacts == {PartPath, YtdlPath, TempPath, IntermediatePath}

Platforms == {"Windows", "Linux", "Darwin", "Other"}

\* check_dependencies has not started; the main window is not built.
InstInit ==
    /\ app_pc = "check_deps"
    /\ inst_pc = "idle"
    /\ inst_status = ""
    /\ inst_ok = FALSE
    /\ inst_status_writer = "ui"

\* The dependency check is over and the main window is up.
InstOver ==
    /\ app_pc = "main"
    /\ inst_pc = "idle"
    /\ inst_status = ""
    /\ inst_ok = FALSE
    /\ inst_status_writer = "ui"

\* main.py lines 22-24: FFmpeg is installed; main() goes on to MainWindow.
DepsInstalled ==
    /\ app_pc = "check_deps"
    /\ app_pc' = "main"
    /\ UNCHANGED <<inst_pc, inst_status, inst_ok, inst_status_writer>>

\* main.py lines 27-40: FFmpeg is missing and the user declines.
DepsDeclined ==
    /\ app_pc = "check_deps"
    /\ app_pc' = "main"
    /\ UNCHANGED <<inst_pc, inst_status, inst_ok, inst_status_writer>>

\* main.py lines 42-75: the user accepts; the progress window is built on
\* the UI thread and the do_install thread is started.
DepsAccepted ==
    /\ app_pc = "check_deps"
    /\ app_pc' = "installing"
    /\ inst_status' = "Preparando..."
    /\ inst_status_writer' = "ui"
    /\ inst_pc' = "ensure"
    /\ UNCHANGED inst_ok

\* update_progress(status, percent), main.py lines 62-65, as it is passed to
\* ensure_ffmpeg: it runs on the thread that calls the callback and writes
\* the label and the progress bar there.
update_progress(status, thread) ==
    /\ inst_status' = status
    /\ inst_status_writer' = thread

\* ensure_ffmpeg, dependencies.py lines 212-215, then download_ffmpeg lines
\* 112-113, on the do_install thread.
InstVerify ==
    /\ inst_pc = "ensure"
    /\ \E installed \in BOOLEAN :
          IF installed
          THEN /\ inst_pc' = "done"
               /\ inst_ok' = TRUE
               /\ UNCHANGED <<inst_status, inst_status_writer>>
          ELSE /\ update_progress("Verificando FFmpeg...", "do_install")
               /\ inst_pc' = "platform"
               /\ UNCHANGED inst_ok
    /\ UNCHANGED app_pc

\* download_ffmpeg lines 115-126 and the first lines of the per-platform
\* functions (lines 138-139, 185-192, 197-199).
InstPlatform ==
    /\ inst_pc = "platform"
    /\ \E system \in Platforms :
          CASE system = "Windows" ->
                  /\ update_progress("Baixando FFmpeg...", "do_install")
                  /\ inst_pc' = "win_retrieve"
                  /\ UNCHANGED inst_ok
            [] system = "Linux" ->
                  /\ update_progress("No Linux, instale via: sudo apt install ffmpeg",
                                     "do_install")
                  /\ inst_pc' = "done"
                  /\ inst_ok' = FALSE
            [] system = "Darwin" ->
                  /\ update_progress("No macOS, instale via: brew install ffmpeg",
                                     "do_install")
                  /\ inst_pc' = "done"
                  /\ inst_ok' = FALSE
            [] OTHER ->
                  /\ inst_pc' = "done"
                  /\ inst_ok' = FALSE
                  /\ UNCHANGED <<inst_status, inst_status_writer>>
    /\ UNCHANGED app_pc

\* A step of _download_ffmpeg_windows that may raise (urlretrieve line 150,
\* extractall lines 156-157): on success the next status is reported, on an
\* exception download_ffmpeg's except clause reports it (lines 127-130).
InstWindowsStep(at, status, next) ==
    /\ inst_pc = at
    /\ \E raised \in BOOLEAN :
          IF raised
          THEN /\ update_progress("Erro: ...", "do_install")
               /\ inst_pc' = "done"
               /\ inst_ok' = FALSE
          ELSE /\ update_progress(status, "do_install")
               /\ inst_pc' = next
               /\ UNCHANGED inst_ok
    /\ UNCHANGED app_pc

InstRetrieve == InstWindowsStep("win_retrieve", "Extraindo FFmpeg...", "win_extract")

InstExtract == InstWindowsStep("win_extract", "Instalando FFmpeg...", "win_copy")

\* _download_ffmpeg_windows lines 163-179: the walk finds ffmpeg.exe and
\* copies it, or the copy raises, or the archive holds no ffmpeg.exe.
InstCopy ==
    /\ inst_pc = "win_copy"
    /\ \E outcome \in {"copied", "raised", "not found"} :
          CASE outcome = "copied" ->
                  /\ update_progress("FFmpeg instalado!", "do_install")
                  /\ inst_ok' = TRUE
            [] outcome = "raised" ->
                  /\ update_progress("Erro: ...", "do_install")
                  /\ inst_ok' = FALSE
            [] OTHER ->
                  /\ inst_ok' = FALSE
                  /\ UNCHANGED <<inst_status, inst_status_writer>>
    /\ inst_pc' = "done"
    /\ UNCHANGED app_pc

\* main.py lines 78-94: the thread has ended; the progress window is
\* destroyed and main() goes on to MainWindow.
InstJoin ==
    /\ app_pc = "installing"
    /\ inst_pc = "done"
    /\ app_pc' = "main"
    /\ inst_pc' = "idle"
    /\ inst_status' = ""
    /\ inst_status_writer' = "ui"
    /\ inst_ok' = FALSE

\* The statuses that tell the user the installation failed: the error of
\* download_ffmpeg's except clause and the per-platform instructions.
FailureStatuses ==
    {"Erro: ...", "No Linux, instale via: sudo apt install ffmpeg",
     "No macOS, instale via: brew install ffmpeg"}

\* C21: whenever download_ffmpeg has returned False, the last status passed
\* to the progress callback is a terminal message describing the failure (an
\* error or an instruction), on every platform and for every failure cause.
C21_FailureIsReported ==
    (inst_pc = "done" /\ ~ inst_ok) => inst_status \in FailureStatuses

(***************************************************************************)
(* MainWindow                                                              *)
(***************************************************************************)

\* Most download attempts in one run of the model.
MaxAttempts == 2

\* The texts the URL field takes: empty, a text that is no URL, and a URL.
UrlTexts == {"", "not a url", "https://u1"}

\* url.startswith(("http://", "https://")), main_window.py line 367.
IsHttpUrl(url) == url \in {"https://u1", "https://u2"}

\* A call scheduled with root.after(0, ...).
AfterCall(fn, url, existing, result, record) ==
    [fn |-> fn, url |-> url, existing |-> existing, result |-> result, record |-> record]

\* MainWindow.__init__, lines 36-54 and 235-267.
WindowInit ==
    /\ url_entry = ""
    /\ download_btn_enabled = TRUE
    /\ cancel_btn_shown = FALSE
    /\ cancel_btn_enabled = TRUE
    /\ progress_bar = [shown |-> FALSE, value |-> 0]
    /\ open_folder_shown = FALSE
    /\ status_label = ""
    /\ last_downloaded_file = NoPath
    /\ chk_pc = "idle"
    /\ chk_url = ""
    /\ dlthread_pc = "idle"
    /\ dlthread_url = ""
    /\ after_queue = <<>>
    /\ attempts = 0
    /\ overwrite_of = NoPath

\* The window variables when no window is modelled.
WindowUnused ==
    /\ url_entry = ""
    /\ download_btn_enabled = TRUE
    /\ cancel_btn_shown = FALSE
    /\ cancel_btn_enabled = TRUE
    /\ progress_bar = [shown |-> FALSE, value |-> 0]
    /\ open_folder_shown = FALSE
    /\ status_label = ""
    /\ last_downloaded_file = NoPath
    /\ chk_pc = "idle"
    /\ chk_url = ""
    /\ dlthread_pc = "idle"
    /\ dlthread_url = ""
    /\ after_queue = <<>>
    /\ attempts = 0
    /\ overwrite_of = NoPath

\* The user types or pastes into the URL field.
EditUrl ==
    /\ app_pc = "main"
    /\ \E text \in UrlTexts : text # url_entry /\ url_entry' = text
    /\ UNCHANGED <<widget_vars, chk_pc, chk_url, dlthread_pc, dlthread_url, after_queue,
                   attempts, overwrite_of>>

\* A mutant of start_download_button: the button is left enabled.
start_download_button_LeftEnabled(enabled) == enabled

\* self._download_btn.set_enabled(False), line 383.
start_download_button(enabled) == FALSE

\* _start_download, lines 359-402, the Download button's command: Tk runs it
\* only while the button is enabled.
StartDownload ==
    /\ app_pc = "main"
    /\ download_btn_enabled
    /\ IF url_entry = ""
       THEN /\ status_label' = "Please enter a YouTube URL"
            /\ UNCHANGED <<download_btn_enabled, chk_pc, chk_url, attempts, overwrite_of, dl_vars, pp_vars>>
       ELSE IF ~ IsHttpUrl(url_entry)
       THEN /\ status_label' = "Please enter a valid URL"
            /\ UNCHANGED <<download_btn_enabled, chk_pc, chk_url, attempts, overwrite_of, dl_vars, pp_vars>>
       ELSE /\ attempts < MaxAttempts
            /\ attempts' = attempts + 1
            /\ overwrite_of' = NoPath
            \* lines 375-379: a new YouTubeDownloader with both callbacks
            /\ dl_pc' = "idle"
            /\ cancelled' = FALSE
            /\ current_title' = ""
            /\ has_progress_cb' = TRUE
            /\ dl_audio_only' = FALSE
            /\ dl_info' = NoInfo
            /\ dl_exc' = ""
            /\ dl_result' = NoResult
            /\ dl_hooks' = 0
            /\ hook_last' = NoHook
            /\ progress' = NoProgress
            /\ cancel_called' = FALSE
            /\ temp_files' = <<>>
            /\ has_video_cb' = TRUE
            /\ pp_hooks' = 0
            /\ video_complete_calls' = <<>>
            /\ status_label' = "Verificando video..."
            /\ download_btn_enabled' = start_download_button(download_btn_enabled)
            /\ chk_pc' = "get_info"
            /\ chk_url' = url_entry
    /\ UNCHANGED <<url_entry, cancel_btn_shown, cancel_btn_enabled, progress_bar,
                   open_folder_shown, last_downloaded_file, dlthread_pc, dlthread_url,
                   after_queue>>

\* check_and_download, lines 387-398, on its own thread: get_video_info
\* returns the title or None, check_file_exists looks for <title>.mp4, and
\* the next step is scheduled on the UI thread.
CheckAndDownload ==
    /\ chk_pc = "get_info"
    /\ \E got_info \in BOOLEAN :
          after_queue' =
             Append(after_queue,
                    IF got_info /\ check_file_exists(files) # NoPath
                    THEN AfterCall("_ask_overwrite", chk_url, check_file_exists(files),
                                   NoResult, NoProgress)
                    ELSE AfterCall("_proceed_download", chk_url, NoPath, NoResult,
                                   NoProgress))
    /\ chk_pc' = "idle"
    /\ UNCHANGED <<url_entry, widget_vars, chk_url, dlthread_pc, dlthread_url, attempts, overwrite_of>>

\* The scheduled call the UI thread runs next.
NextCall == Head(after_queue)

\* _proceed_download(url), lines 425-437: the widget changes and the
\* thread start.
proceed_download(url) ==
    /\ open_folder_shown' = FALSE
    /\ progress_bar' = [shown |-> TRUE, value |-> 0]
    /\ cancel_btn_shown' = TRUE
    /\ status_label' = "Iniciando download..."
    /\ dlthread_pc' = "start"
    /\ dlthread_url' = url

\* _proceed_download scheduled by check_and_download (line 398).
RunProceedDownload ==
    /\ app_pc = "main"
    /\ after_queue # <<>>
    /\ NextCall.fn = "_proceed_download"
    /\ proceed_download(NextCall.url)
    /\ after_queue' = Tail(after_queue)
    /\ UNCHANGED <<url_entry, download_btn_enabled, cancel_btn_enabled, last_downloaded_file,
                   chk_pc, chk_url, attempts, overwrite_of>>

\* _ask_overwrite(url, title, existing_file), lines 404-423, with the
\* user's answer to the dialog.
RunAskOverwrite ==
    /\ app_pc = "main"
    /\ after_queue # <<>>
    /\ NextCall.fn = "_ask_overwrite"
    /\ after_queue' = Tail(after_queue)
    /\ \E answer \in {"yes", "no", "cancel"} :
          IF answer = "yes"
          THEN /\ proceed_download(NextCall.url)
               /\ overwrite_of' = NextCall.existing
               /\ UNCHANGED download_btn_enabled
          ELSE /\ download_btn_enabled' = TRUE
               /\ UNCHANGED overwrite_of
               /\ status_label' = IF answer = "no" THEN "Abrindo arquivo existente..."
                                  ELSE "Download cancelado"
               /\ UNCHANGED <<open_folder_shown, progress_bar, cancel_btn_shown, dlthread_pc,
                              dlthread_url>>
    /\ UNCHANGED <<url_entry, cancel_btn_enabled, last_downloaded_file, chk_pc, chk_url,
                   attempts>>

\* _download_video(url), lines 439-456, on the download thread: it reads the
\* format and the checkboxes and calls download().
DownloadVideoCalls ==
    /\ dlthread_pc = "start"
    /\ dlthread_pc' = "download"
    /\ \E audio_only \in BOOLEAN : DownloadCall(audio_only)
    /\ UNCHANGED <<url_entry, widget_vars, chk_pc, chk_url, dlthread_url, after_queue,
                   attempts, overwrite_of>>

\* _download_video line 459: download() has returned, the completion is
\* scheduled on the UI thread with the result, and the thread ends; the
\* locals of download() and of its hooks end with it.
DownloadVideoReturns ==
    /\ dlthread_pc = "download"
    /\ dl_pc = "done"
    /\ after_queue' = Append(after_queue,
                             AfterCall("_on_download_complete", dlthread_url, NoPath,
                                       dl_result, NoProgress))
    /\ dlthread_pc' = "idle"
    /\ dl_pc' = "idle"
    /\ dl_info' = NoInfo
    /\ dl_exc' = ""
    /\ dl_result' = NoResult
    /\ dl_hooks' = 0
    /\ hook_last' = NoHook
    /\ progress' = NoProgress
    /\ UNCHANGED <<cancelled, current_title, has_progress_cb, dl_audio_only, cancel_called, temp_files>>
    /\ UNCHANGED <<url_entry, widget_vars, chk_pc, chk_url, dlthread_url, attempts, overwrite_of>>

\* MainWindow._on_progress, lines 461-470, the downloader's progress
\* callback: it runs on the download thread and schedules the widget update.
on_progress(forwarded, record) ==
    after_queue' = IF forwarded
                   THEN Append(after_queue,
                               AfterCall("_update_progress_ui", "", NoPath, NoResult, record))
                   ELSE after_queue

\* _update_progress_ui, lines 485-507.
RunUpdateProgressUi ==
    /\ app_pc = "main"
    /\ after_queue # <<>>
    /\ NextCall.fn = "_update_progress_ui"
    /\ after_queue' = Tail(after_queue)
    /\ IF NextCall.record.status = "downloading"
       THEN /\ progress_bar' = [progress_bar EXCEPT !.value = NextCall.record.percentage]
            /\ status_label' = "Baixando"
       ELSE /\ progress_bar' = [progress_bar EXCEPT !.value = 100]
            /\ status_label' = "Processando video..."
    /\ UNCHANGED <<url_entry, download_btn_enabled, cancel_btn_shown, cancel_btn_enabled,
                   open_folder_shown, last_downloaded_file, chk_pc, chk_url, dlthread_pc,
                   dlthread_url, attempts, overwrite_of>>

\* A mutant of complete_download_button: the button is left as it is.
complete_download_button_Untouched(enabled) == enabled

\* self._download_btn.set_enabled(True), line 511.
complete_download_button(enabled) == TRUE

\* _on_download_complete(result), lines 509-547. HistoryPanel.refresh (line
\* 532) calls validate_entries, which DownloadHistory does not define: the
\* AttributeError ends the handler before the Open Folder button is packed.
RunOnDownloadComplete ==
    /\ app_pc = "main"
    /\ after_queue # <<>>
    /\ NextCall.fn = "_on_download_complete"
    /\ after_queue' = Tail(after_queue)
    /\ download_btn_enabled' = complete_download_button(download_btn_enabled)
    /\ progress_bar' = [progress_bar EXCEPT !.shown = FALSE]
    /\ cancel_btn_shown' = FALSE
    /\ IF NextCall.result.success
       THEN /\ last_downloaded_file' = NextCall.result.file_path
            /\ status_label' = "Download concluido"
            /\ IF NextCall.result.file_path # NoPath
               THEN /\ AddEntryCall(NextCall.result.title, url_entry,
                                    NextCall.result.file_path, 0)
                    /\ panel' = refresh(panel, entries')
                    /\ open_folder_shown' = (IF panel'.error = "" THEN TRUE
                                             ELSE open_folder_shown)
               ELSE /\ open_folder_shown' = TRUE
                    /\ UNCHANGED <<hist_vars, panel>>
       ELSE /\ status_label' = IF NextCall.result.error_message = "Download cancelado"
                               THEN "Download cancelado com sucesso!"
                               ELSE "Erro"
            /\ UNCHANGED <<last_downloaded_file, open_folder_shown, hist_vars, panel>>
    /\ UNCHANGED <<url_entry, cancel_btn_enabled, chk_pc, chk_url, dlthread_pc, dlthread_url,
                   attempts, overwrite_of>>

\* _cancel_download, lines 549-554, the Cancel button's command: Tk runs it
\* while the button is packed and enabled.
CancelClick ==
    /\ app_pc = "main"
    /\ cancel_btn_shown
    /\ cancel_btn_enabled
    /\ CancelCall
    /\ status_label' = "Cancelando download..."
    /\ cancel_btn_enabled' = FALSE
    /\ UNCHANGED <<url_entry, download_btn_enabled, cancel_btn_shown, progress_bar,
                   open_folder_shown, last_downloaded_file, chk_pc, chk_url, dlthread_pc,
                   dlthread_url, after_queue, attempts, overwrite_of>>

\* A download attempt is in flight: its check thread or its download thread
\* runs, or one of its scheduled calls waits for the UI thread.
AttemptInFlight ==
    \/ chk_pc # "idle"
    \/ dlthread_pc # "idle"
    \/ \E i \in 1..Len(after_queue) :
          after_queue[i].fn \in {"_ask_overwrite", "_proceed_download", "_on_download_complete"}

\* The threads of download attempts that run.
RunningWorkers ==
    (IF chk_pc # "idle" THEN 1 ELSE 0) + (IF dlthread_pc # "idle" THEN 1 ELSE 0)

(***************************************************************************)
(* The phases of download()                                                *)
(***************************************************************************)

\* The phases that may follow a phase of download(): reset, the
\* metadata-only fetch (with makedirs before it), the first check, the
\* downloading fetch, the second check, the path resolution; the except
\* clause after a fetch that raised.
PhasesAfter(pc) ==
    CASE pc = "idle" -> {"reset"}
      [] pc = "reset" -> {"info"}
      [] pc = "info" -> {"check1", "except"}
      [] pc = "check1" -> {"downloading", "done"}
      [] pc = "downloading" -> {"check2", "except"}
      [] pc = "check2" -> {"resolve", "done"}
      [] pc = "resolve" -> {"done"}
      [] pc = "except" -> {"done"}
      [] OTHER -> {}

\* C22: download() runs its phases in the fixed order, and when the
\* cancellation flag is set as the metadata-only fetch has returned, the
\* next phase is the return of the cancellation result: the downloading
\* fetch is not invoked.
C22_PhasesInOrder ==
    [][dl_pc' # dl_pc =>
         /\ dl_pc' \in PhasesAfter(dl_pc)
         /\ (dl_pc = "check1" /\ cancelled) =>
               (dl_pc' = "done" /\ dl_result' = CancelResult)]_vars

\* C22 witness: cancel() was called during the metadata-only fetch, and
\* download() returned the cancellation result with the downloading fetch
\* never invoked (no hook call, no info_dict, no exception).
C22_Witness ==
    /\ dl_pc = "done"
    /\ dl_result = CancelResult
    /\ cancel_called
    /\ current_title = "video"
    /\ dl_info = NoInfo
    /\ dl_exc = ""
    /\ dl_hooks = 0

(***************************************************************************)
(* The fallback of the path resolution                                     *)
(***************************************************************************)

\* The most recently modified file of the directory with the extension, none
\* when it holds no such file.
NewestWithExtension(fs, ext) ==
    LET matching == {p \in DirPaths : fs[p] # 0 /\ Extension(p) = ext}
    IN  IF matching = {} THEN NoPath
        ELSE CHOOSE p \in matching : \A q \in matching : fs[q] <= fs[p]

\* C23: when the path the library reports is missing or names no file,
\* download() resolves file_path to the most recently modified file of the
\* output directory with the extension of the requested output: mp4 for a
\* video download, mp3 for an audio-only download.
C23_FallbackMatchesOutput ==
    [][(/\ dl_pc = "resolve"
        /\ dl_pc' = "done"
        /\ (ReportedPath(dl_info) = NoPath \/ ~ Exists(files, ReportedPath(dl_info))))
       => dl_result'.file_path =
             NewestWithExtension(files, IF dl_audio_only THEN "mp3" ELSE "mp4")]_vars

(***************************************************************************)
(* What the cleanup removes                                                *)
(***************************************************************************)

\* The completed output files of the directory: the outputs of this and of
\* earlier downloads, among them 'my.file.mp4', whose title holds ".f".
CompletedOutputs == {p \in DirPaths : Extension(p) \in {"mp4", "mp3"}} \ {IntermediatePath}

\* C27: the cleanup of cancel() or of a cancelled download() removes only
\* temporary artifacts: no completed output file, whatever its name, is
\* among the files it removed.
C27_CleanupKeepsOutputs == removed \cap CompletedOutputs = {}

(***************************************************************************)
(* Progress records                                                        *)
(***************************************************************************)

\* The last hook invocation passed a record to the callback.
Emitted == hook_last.calls > 0 /\ hook_last.forwarded

\* C13: a 'downloading' event whose total_bytes is 0 or absent and whose
\* estimate is 0 or absent yields a record with percentage 0, whatever its
\* downloaded_bytes; the division is not evaluated.
C13_ZeroTotalGivesZero ==
    (/\ Emitted
     /\ hook_last.data.status = "downloading"
     /\ hook_last.data.total_bytes \in {Absent, 0}
     /\ hook_last.data.total_bytes_estimate \in {Absent, 0})
    => (progress.status = "downloading" /\ progress.percentage = 0)

\* C13 witness: a record was emitted for an event with bytes downloaded, no
\* total_bytes and an estimate of 0.
C13_Witness ==
    /\ Emitted
    /\ hook_last.data.status = "downloading"
    /\ hook_last.data.downloaded_bytes = MaxBytes
    /\ hook_last.data.total_bytes = Absent
    /\ hook_last.data.total_bytes_estimate = 0
    /\ progress.percentage = 0

\* C14: every record the hook emits has a percentage from 0 to 100, also
\* when downloaded_bytes exceeds the (estimated) total.
C14_PercentageInRange ==
    Emitted => (progress.percentage >= 0 /\ progress.percentage <= 100)

\* C28: while the cancellation flag is not set the progress hook does not
\* raise: an invocation that finds the flag clear, whatever totals its
\* event carries (absent or None included), leaves download() out of its
\* except clause, and for a 'downloading' event with a callback registered
\* it emits a record.
C28_HookRaisesOnlyWhenCancelled ==
    [][(dl_hooks' = dl_hooks + 1 /\ ~ cancelled) =>
          /\ ~ hook_last'.raised
          /\ dl_pc' = dl_pc
          /\ (has_progress_cb /\ hook_last'.data.status = "downloading")
                => (hook_last'.forwarded /\ progress'.status = "downloading")]_vars

(***************************************************************************)
(* Per-item completion                                                     *)
(***************************************************************************)

\* The calls of the video-complete callback made for an item.
CallsForItem(item) ==
    {k \in 1..Len(video_complete_calls) : video_complete_calls[k].title = <<"title", item>>}

\* C12: the video-complete callback fires at most once for an item, also
\* when several post-processing steps of the item report 'finished'.
C12_CallbackOncePerItem ==
    \A item \in 1..MaxItems : Cardinality(CallsForItem(item)) <= 1

(***************************************************************************)
(* The window: cancellation, one download at a time, UI-thread confinement *)
\* C29: every download attempt re-enables the Download button: the button
\* is never disabled with no attempt in flight, and, when the main loop and
\* the threads run and every library call returns or raises, a disabled
\* button is enabled again, by _on_download_complete or by the No or Cancel
\* answer to the overwrite dialog.
C29_ButtonReenabled ==
    /\ [](~ download_btn_enabled => AttemptInFlight)
    /\ (~ download_btn_enabled ~> download_btn_enabled)

\* C29 witness: a second attempt has ended, its completion handler has run
\* and the button is enabled again with no attempt in flight.
C29_Witness ==
    /\ attempts = 2
    /\ download_btn_enabled
    /\ ~ AttemptInFlight
    /\ status_label \in {"Download concluido", "Erro", "Download cancelado com sucesso!"}

(***************************************************************************)

\* C2: whenever cancel() was called while a download was under way (its
\* thread started, its result not yet produced), the result download()
\* returns is the cancellation result: success false and the message
\* 'Download cancelado'.
C2_CancelYieldsCancelResult ==
    (dl_result.returned /\ cancel_called) => dl_result = CancelResult

\* C7: while a download attempt is in flight the Download button is
\* disabled, and at most one worker thread of an attempt runs.
C7_OneDownloadAtATime ==
    /\ AttemptInFlight => ~ download_btn_enabled
    /\ RunningWorkers <= 1

\* A second attempt is in flight, its download() running, with the button
\* disabled.
C7_Witness ==
    /\ attempts = 2
    /\ dlthread_pc = "download"
    /\ dl_pc = "downloading"
    /\ ~ download_btn_enabled

\* C16: when the user chose to overwrite '<title>.mp4' and download()
\* succeeded, the history after the completion handler has as its newest
\* entry one with that path, dated at its insertion, and no other entry
\* with that path.
C16_OverwriteRecordsThatPath ==
    [][(/\ after_queue # <<>>
        /\ NextCall.fn = "_on_download_complete"
        /\ after_queue' = Tail(after_queue)
        /\ overwrite_of # NoPath
        /\ NextCall.result.success)
       => (/\ entries' # <<>>
           /\ entries'[1].file_path = overwrite_of
           /\ entries'[1].download_date = hist_clock'
           /\ hist_clock' = hist_clock + 1
           /\ Cardinality({i \in 1..Len(entries') : entries'[i].file_path = overwrite_of}) = 1)]_vars

\* C24: in every download attempt the cancel button is enabled when the
\* attempt's download begins and the button is shown, so cancellation can
\* be requested in every attempt, including one made after an earlier
\* attempt was cancelled.
C24_CancelButtonUsable ==
    [][(cancel_btn_shown' /\ ~ cancel_btn_shown) => cancel_btn_enabled']_vars

\* C26: the history entry added when a download completes successfully
\* records the URL that was passed to download() for that attempt, whatever
\* the URL field holds by then.
C26_HistoryRecordsDownloadUrl ==
    [][(/\ after_queue # <<>>
        /\ NextCall.fn = "_on_download_complete"
        /\ after_queue' = Tail(after_queue)
        /\ NextCall.result.success
        /\ NextCall.result.file_path # NoPath)
       => (/\ entries' # <<>>
           /\ entries'[1].url = NextCall.url)]_vars

\* C8: no worker thread writes a widget: the progress window's status label
\* is only ever written by the UI thread.
C8_NoWorkerWritesUi == inst_status_writer = "ui"


(***************************************************************************)
(* AppSettings: save and load                                              *)
(***************************************************************************)

\* Longest field value of the settings in the model.
MaxStrLen == 2

Quote == "\""
Backslash == "\\"

\* The characters of a field value: a letter, the two characters JSON
\* escapes, a non-ASCII letter, and a lone surrogate (what os.fsdecode gives
\* for a byte that is not UTF-8, and what json.load gives for "\udcff").
SettingsChars == {"a", Quote, Backslash, "e-acute", "surrogate"}

SettingsStrings == SeqsUpTo(SettingsChars, MaxStrLen)

\* AppSettings(download_dir, last_url), lines 27-31.
AppSettings(download_dir, last_url) == [download_dir |-> download_dir, last_url |-> last_url]

RECURSIVE Concat(_)
Concat(seqs) == IF seqs = <<>> THEN <<>> ELSE Head(seqs) \o Concat(Tail(seqs))

\* json's string escaping with ensure_ascii=False: only the quote and the
\* backslash are escaped here.
EscapeChar(c) == IF c \in {Quote, Backslash} THEN <<Backslash, c>> ELSE <<c>>

JsonString(str) ==
    <<Quote>> \o Concat([i \in 1..Len(str) |-> EscapeChar(str[i])]) \o <<Quote>>

\* json.dump(asdict(self), f, ...): the chunks it passes to f.write, in order.
JsonChunks(obj) ==
    <<<<"{">>, <<"download_dir:">>, JsonString(obj.download_dir), <<",">>,
      <<"last_url:">>, JsonString(obj.last_url), <<"}">>>>

\* The UTF-8 bytes of a character; a lone surrogate has none.
Utf8(c) == IF c = "e-acute" THEN <<"0xC3", "0xA9">> ELSE <<c>>

Encodable(chunk) == \A i \in 1..Len(chunk) : chunk[i] # "surrogate"

\* f.write(chunk) for each chunk until one raises UnicodeEncodeError; the
\* chunks written before it reach the file when the with block closes it.
RECURSIVE WriteChunks(_)
WriteChunks(chunks) ==
    IF chunks = <<>> \/ ~ Encodable(Head(chunks)) THEN <<>>
    ELSE Concat([i \in 1..Len(Head(chunks)) |-> Utf8(Head(chunks)[i])])
            \o WriteChunks(Tail(chunks))

\* Reading the file as UTF-8: the characters, or <<"invalid">> on bytes that
\* are no UTF-8.
RECURSIVE Utf8Decode(_)
Utf8Decode(bytes) ==
    IF bytes = <<>> THEN <<>>
    ELSE IF Head(bytes) = "0xC3"
         THEN IF Len(bytes) >= 2 /\ bytes[2] = "0xA9"
              THEN <<"e-acute">> \o Utf8Decode(Tail(Tail(bytes)))
              ELSE <<"invalid">>
         ELSE IF Head(bytes) = "0xA9" THEN <<"invalid">>
         ELSE <<Head(bytes)>> \o Utf8Decode(Tail(bytes))

\* json's string scanner from the character after the opening quote: the
\* value and the index after the closing quote, ok false on a text that
\* ends inside the string.
RECURSIVE ScanString(_, _, _)
ScanString(text, i, acc) ==
    IF i > Len(text) THEN [ok |-> FALSE, value |-> acc, next |-> i]
    ELSE IF text[i] = Quote THEN [ok |-> TRUE, value |-> acc, next |-> i + 1]
    ELSE IF text[i] = Backslash
         THEN IF i + 1 > Len(text) THEN [ok |-> FALSE, value |-> acc, next |-> i]
              ELSE ScanString(text, i + 2, Append(acc, text[i + 1]))
    ELSE ScanString(text, i + 1, Append(acc, text[i]))

Expect(text, i, token) == i <= Len(text) /\ text[i] = token

\* json.load(f) and cls(**data), lines 47-49: the object, ok false when the
\* text is no JSON object with the two fields.
JsonLoad(text) ==
    LET failed == [ok |-> FALSE, value |-> AppSettings(<<>>, <<>>)]
    IN  IF ~ (Expect(text, 1, "{") /\ Expect(text, 2, "download_dir:") /\ Expect(text, 3, Quote))
        THEN failed
        ELSE LET first == ScanString(text, 4, <<>>)
             IN  IF ~ (/\ first.ok
                       /\ Expect(text, first.next, ",")
                       /\ Expect(text, first.next + 1, "last_url:")
                       /\ Expect(text, first.next + 2, Quote))
                 THEN failed
                 ELSE LET second == ScanString(text, first.next + 3, <<>>)
                      IN  IF second.ok /\ Expect(text, second.next, "}")
                                       /\ second.next = Len(text)
                          THEN [ok |-> TRUE, value |-> AppSettings(first.value, second.value)]
                          ELSE failed

\* save(), lines 33-39: the file afterwards. open(..., 'w') raises on a disk
\* that cannot be written and leaves the file as it was.
save_file(obj, disk_ok, file) == IF ~ disk_ok THEN file ELSE WriteChunks(JsonChunks(obj))

\* save(), lines 35-39: whether the call lets an exception out; the except
\* clause swallows every failure.
settings_save_raises(disk_ok) == FALSE

\* load(), lines 41-52: the object returned; every exception is caught and
\* the defaults are returned.
load_file(file) ==
    IF file # <<>> /\ JsonLoad(Utf8Decode(file)).ok
    THEN [raised |-> FALSE, value |-> JsonLoad(Utf8Decode(file)).value]
    ELSE [raised |-> FALSE, value |-> AppSettings(<<>>, <<>>)]

\* The settings files found at start: none, or one an earlier session saved.
InitialSettingsFiles == {<<>>, save_file(AppSettings(<<"a">>, <<>>), TRUE, <<>>)}

SettingsInit ==
    /\ set_pc = "new"
    /\ settings \in {AppSettings(d, u) : d \in SettingsStrings, u \in SettingsStrings}
    /\ settings_file \in InitialSettingsFiles
    /\ settings_disk_ok \in BOOLEAN
    /\ settings_raised = FALSE
    /\ settings_loaded = AppSettings(<<>>, <<>>)

\* The settings variables when no settings are modelled.
SettingsUnused ==
    /\ set_pc = "new"
    /\ settings = AppSettings(<<>>, <<>>)
    /\ settings_file = <<>>
    /\ settings_disk_ok = TRUE
    /\ settings_raised = FALSE
    /\ settings_loaded = AppSettings(<<>>, <<>>)

\* self.save(), lines 33-39.
SettingsSave ==
    /\ set_pc = "new"
    /\ settings_file' = save_file(settings, settings_disk_ok, settings_file)
    /\ settings_raised' = settings_save_raises(settings_disk_ok)
    /\ set_pc' = "saved"
    /\ UNCHANGED <<settings, settings_disk_ok, settings_loaded>>

\* AppSettings.load(), lines 41-52.
SettingsLoad ==
    /\ set_pc = "saved"
    /\ settings_loaded' = load_file(settings_file).value
    /\ settings_raised' = (settings_raised \/ load_file(settings_file).raised)
    /\ set_pc' = "loaded"
    /\ UNCHANGED <<settings, settings_file, settings_disk_ok>>

\* C15: save() followed by AppSettings.load() returns an object equal field
\* for field to the one saved, for every AppSettings value (on a disk that
\* can be written).
C15_SettingsRoundTrip ==
    (set_pc = "loaded" /\ settings_disk_ok) => settings_loaded = settings

(***************************************************************************)
(* Persistence failures                                                    *)
(***************************************************************************)

\* The list add_entry, remove_entry or clear leaves in memory, from the list
\* the call found and the call recorded in last.
ExpectedEntries(before, last) ==
    LET others == SelectSeq(before, LAMBDA e : e.file_path # last.entry.file_path)
    IN  CASE last.op = "add" -> SubSeq(<<last.entry>> \o others, 1,
                                       IF Len(others) + 1 <= HistoryCap
                                       THEN Len(others) + 1 ELSE HistoryCap)
          [] last.op = "remove" -> others
          [] OTHER -> <<>>

\* C18: when the data directory cannot be written, add_entry, remove_entry
\* and clear raise nothing and leave in memory (what get_entries returns)
\* the list with the change made; a failed settings save raises nothing and
\* leaves the AppSettings object as it was.
C18_FailedWriteKeepsMemory ==
    [][/\ (~ hist_disk_ok /\ (hist_last' # hist_last \/ entries' # entries))
          => /\ ~ hist_last'.raised
             /\ entries' = ExpectedEntries(entries, hist_last')
       /\ (~ settings_disk_ok /\ set_pc = "new" /\ set_pc' = "saved")
          => /\ ~ settings_raised'
             /\ settings' = settings]_vars

\* C18 witness: on a data directory that cannot be written, the settings
\* were saved (no file appeared), an entry was added and another removed:
\* the list in memory differs from the file.
C18_Witness ==
    /\ ~ hist_disk_ok
    /\ ~ settings_disk_ok
    /\ set_pc = "saved"
    /\ settings_file = <<>>
    /\ settings.download_dir # <<>>
    /\ hist_last.op = "remove"
    /\ hist_clock >= 1
    /\ entries # hist_file
    /\ entries # <<>>

(***************************************************************************)
(* dependencies.py: find_ffmpeg                                            *)
(***************************************************************************)

\* Most directories on the system search path in the model.
MaxPathDirs == 2

\* common_paths, lines 55-68, in list order.
common_paths(is_windows) ==
    IF is_windows
    THEN <<"%ProgramFiles%\\ffmpeg\\bin\\ffmpeg.exe",
            "%ProgramFiles(x86)%\\ffmpeg\\bin\\ffmpeg.exe",
            "C:\\ffmpeg\\bin\\ffmpeg.exe",
            "%LOCALAPPDATA%\\Programs\\ffmpeg\\bin\\ffmpeg.exe",
            "%USERPROFILE%\\scoop\\apps\\ffmpeg\\current\\bin\\ffmpeg.exe">>
    ELSE <<"/usr/bin/ffmpeg", "/usr/local/bin/ffmpeg", "/snap/bin/ffmpeg",
            "/opt/homebrew/bin/ffmpeg">>

\* The locations find_ffmpeg looks at: the app's bin directory, the
\* directories of the search path by position, the common paths by position.
LocalFfmpeg == <<"bin", 1>>
PathFfmpeg(i) == <<"PATH", i>>
CommonFfmpeg(j) == <<"common", j>>
NoFfmpeg == <<"None", 0>>

FfmpegLocations(platform) ==
    {LocalFfmpeg} \cup {PathFfmpeg(i) : i \in 1..MaxPathDirs}
    \cup {CommonFfmpeg(j) : j \in 1..Len(common_paths(platform = "Windows"))}

\* shutil.which('ffmpeg'), line 47: the executable of the first directory of
\* the search path that holds one, None when none does.
which(exists) ==
    IF \E i \in 1..MaxPathDirs : PathFfmpeg(i) \in exists
    THEN PathFfmpeg(CHOOSE i \in 1..MaxPathDirs :
                       /\ PathFfmpeg(i) \in exists
                       /\ \A k \in 1..(i - 1) : PathFfmpeg(k) \notin exists)
    ELSE NoFfmpeg

\* Lines 70-74: the loop over common_paths from position j on.
RECURSIVE first_common(_, _, _)
first_common(paths, j, exists) ==
    IF j > Len(paths) THEN NoFfmpeg
    ELSE IF paths[j] # "" /\ CommonFfmpeg(j) \in exists THEN CommonFfmpeg(j)
    ELSE first_common(paths, j + 1, exists)

\* A mutant of find_ffmpeg: the search path is asked before the app's bin
\* directory.
find_ffmpeg_WhichFirst(platform, exists) ==
    IF which(exists) # NoFfmpeg THEN which(exists)
    ELSE IF LocalFfmpeg \in exists THEN LocalFfmpeg
    ELSE first_common(common_paths(platform = "Windows"), 1, exists)

\* find_ffmpeg(), lines 35-74.
find_ffmpeg(platform, exists) ==
    IF LocalFfmpeg \in exists THEN LocalFfmpeg
    ELSE IF which(exists) # NoFfmpeg THEN which(exists)
    ELSE first_common(common_paths(platform = "Windows"), 1, exists)

FfmpegInit ==
    \E platform \in Platforms :
        \E exists \in SUBSET FfmpegLocations(platform) :
            ff = [pc |-> "call", platform |-> platform, exists |-> exists, result |-> NoFfmpeg]

\* The variable of find_ffmpeg when no search is modelled.
FfmpegUnused == ff = [pc |-> "call", platform |-> "Linux", exists |-> {}, result |-> NoFfmpeg]

FindFfmpeg ==
    /\ ff.pc = "call"
    /\ ff' = [ff EXCEPT !.pc = "done", !.result = find_ffmpeg(ff.platform, ff.exists)]

\* The priority of a location: the app's bin directory, then the search
\* path, then the common paths.
FfmpegRank(loc) ==
    CASE loc[1] = "bin" -> 0
      [] loc[1] = "PATH" -> loc[2]
      [] OTHER -> MaxPathDirs + loc[2]

MaxFetches == 4

\* The texts of the URL field when _on_url_changed runs.
FetchUrls == {"not a url", "https://u1", "https://u2"}

\* What the library answers for a URL: the two videos have different
\* resolutions.
FetchQuery(url) ==
    [ok |-> TRUE, heights |-> IF url = "https://u1" THEN <<720>> ELSE <<1080, 360>>,
     raise_at |-> 0]

\* MainWindow.__init__, lines 50-51; _last_fetched_url does not exist yet
\* ("" here).
FetchNew ==
    fetch = [last_fetched_url |-> "", workers |-> <<>>, queue |-> <<>>,
             available_formats |-> <<>>, selected_format |-> <<>>,
             combo_values |-> <<>>, started |-> 0]

\* The window when no format fetch is modelled.
FetchUnused == FetchNew

\* _on_url_changed, lines 300-333: nothing for a text that is no URL or
\* for the URL fetched last; otherwise the URL is recorded and a thread is
\* started for it.
OnUrlChanged ==
    \E url \in FetchUrls :
        /\ fetch.started < MaxFetches
        /\ IF ~ IsHttpUrl(url) \/ fetch.last_fetched_url = url
           THEN UNCHANGED fetch
           ELSE fetch' = [fetch EXCEPT !.last_fetched_url = url,
                                       !.workers = Append(@, url),
                                       !.started = @ + 1]

\* fetch_formats, lines 322-329, on its thread: any of the running threads
\* gets its answer and schedules _update_format_combo with it.
FetchFormats ==
    \E i \in 1..Len(fetch.workers) :
        fetch' = [fetch EXCEPT
                    !.workers = SubSeq(@, 1, i - 1) \o SubSeq(@, i + 1, Len(@)),
                    !.queue = Append(@, get_available_formats(FetchQuery(fetch.workers[i])))]

\* _update_format_combo(formats), lines 344-357.
update_format_combo(f, formats) ==
    IF formats # <<>>
    THEN [f EXCEPT !.available_formats = formats,
                   !.combo_values = [k \in 1..Len(formats) |-> formats[k].resolution],
                   !.selected_format = <<formats[1]>>]
    ELSE [f EXCEPT !.available_formats = formats,
                   !.combo_values = <<BestFormat.resolution>>]

\* The UI thread runs the next scheduled _update_format_combo.
RunUpdateFormatCombo ==
    /\ fetch.queue # <<>>
    /\ fetch' = [update_format_combo(fetch, Head(fetch.queue)) EXCEPT !.queue = Tail(fetch.queue)]

\* C25: once every fetch thread has delivered its list, the combo box and
\* _selected_format show the formats of the URL requested last.
C25_ComboShowsLastUrl ==
    (fetch.started > 0 /\ fetch.workers = <<>> /\ fetch.queue = <<>>) =>
        LET formats == get_available_formats(FetchQuery(fetch.last_fetched_url))
        IN  /\ fetch.available_formats = formats
            /\ fetch.combo_values = [k \in 1..Len(formats) |-> formats[k].resolution]
            /\ fetch.selected_format = <<formats[1]>>

(***************************************************************************)
(* Specifications                                                          *)
(***************************************************************************)

\* The download-service variables when no downloader is in use.
DownloaderUnused ==
    /\ DownloaderNew(FALSE)
    /\ PostprocessNew(FALSE)
    /\ FsEmpty

\* The application variables when no window is modelled.
AppUnused ==
    /\ InstOver
    /\ WindowUnused
    /\ SettingsUnused
    /\ PanelNew
    /\ FfmpegUnused
    /\ FetchUnused

\* get_available_formats on every answer of the library.
FormatsNext == GetAvailableFormats /\ UNCHANGED <<fetch, ff, panel, set_vars, hist_vars, dl_vars, pp_vars, fs_vars, app_vars>>

FormatsSpecInit ==
    /\ FormatsInit
    /\ HistoryEmpty
    /\ DownloaderUnused
    /\ AppUnused

SpecFormats == FormatsSpecInit /\ [][FormatsNext]_vars

\* The history store under any sequence of calls.
HistoryNext ==
    \/ AddEntry /\ UNCHANGED <<fetch, ff, panel, set_vars, fmt_vars, dl_vars, pp_vars, fs_vars, app_vars>>
    \/ RemoveEntry /\ UNCHANGED <<fetch, ff, panel, set_vars, fmt_vars, dl_vars, pp_vars, fs_vars, app_vars>>
    \/ Clear /\ UNCHANGED <<fetch, ff, panel, set_vars, fmt_vars, dl_vars, pp_vars, fs_vars, app_vars>>

HistorySpecInit ==
    /\ FormatsIdle
    /\ HistoryInit
    /\ DownloaderUnused
    /\ AppUnused

SpecHistory == HistorySpecInit /\ [][HistoryNext]_vars

\* One YouTubeDownloader: a thread calls download() once, and cancel() is
\* called from another thread at any moment.
DownloaderNext ==
    \/ (\E audio_only \in BOOLEAN : DownloadCall(audio_only)) /\ UNCHANGED <<fetch, ff, panel, set_vars, fmt_vars, hist_vars, pp_vars, app_vars>>
    \/ CancelCall /\ UNCHANGED <<fetch, ff, panel, set_vars, fmt_vars, hist_vars, pp_vars, app_vars>>
    \/ DlReset /\ UNCHANGED <<fetch, ff, panel, set_vars, fmt_vars, hist_vars, pp_vars, app_vars>>
    \/ DlInfoReturns /\ UNCHANGED <<fetch, ff, panel, set_vars, fmt_vars, hist_vars, pp_vars, app_vars>>
    \/ DlInfoRaises /\ UNCHANGED <<fetch, ff, panel, set_vars, fmt_vars, hist_vars, pp_vars, app_vars>>
    \/ DlCheckBeforeDownload /\ UNCHANGED <<fetch, ff, panel, set_vars, fmt_vars, hist_vars, pp_vars, app_vars>>
    \/ LibWritesTemp /\ UNCHANGED <<fetch, ff, panel, set_vars, fmt_vars, hist_vars, pp_vars, app_vars>>
    \/ DlProgressHook /\ UNCHANGED <<fetch, ff, panel, set_vars, fmt_vars, hist_vars, pp_vars, app_vars>>
    \/ LibRaises /\ UNCHANGED <<fetch, ff, panel, set_vars, fmt_vars, hist_vars, pp_vars, app_vars>>
    \/ LibReturns /\ UNCHANGED <<fetch, ff, panel, set_vars, fmt_vars, hist_vars, pp_vars, app_vars>>
    \/ DlCheckAfterDownload /\ UNCHANGED <<fetch, ff, panel, set_vars, fmt_vars, hist_vars, pp_vars, app_vars>>
    \/ DlResolve /\ UNCHANGED <<fetch, ff, panel, set_vars, fmt_vars, hist_vars, pp_vars, app_vars>>
    \/ DlExcept /\ UNCHANGED <<fetch, ff, panel, set_vars, fmt_vars, hist_vars, pp_vars, app_vars>>

DownloaderSpecInit ==
    /\ FormatsIdle
    /\ HistoryEmpty
    /\ DownloaderInit
    /\ PostprocessNew(FALSE)
    /\ FsInit
    /\ AppUnused

SpecDownloader == DownloaderSpecInit /\ [][DownloaderNext]_vars

\* One download() call that is not cancelled, with the progress hook on
\* every status record of the library.
ProgressNext ==
    \/ (\E audio_only \in BOOLEAN : DownloadCall(audio_only))
          /\ UNCHANGED <<fetch, ff, panel, set_vars, fmt_vars, hist_vars, pp_vars, app_vars>>
    \/ DlReset /\ UNCHANGED <<fetch, ff, panel, set_vars, fmt_vars, hist_vars, pp_vars, app_vars>>
    \/ DlInfoReturns /\ UNCHANGED <<fetch, ff, panel, set_vars, fmt_vars, hist_vars, pp_vars, app_vars>>
    \/ DlCheckBeforeDownload /\ UNCHANGED <<fetch, ff, panel, set_vars, fmt_vars, hist_vars, pp_vars, app_vars>>
    \/ DlProgressHookOn(ProgressEvents) /\ UNCHANGED <<fetch, ff, panel, set_vars, fmt_vars, hist_vars, pp_vars, app_vars>>
    \/ LibReturns /\ UNCHANGED <<fetch, ff, panel, set_vars, fmt_vars, hist_vars, pp_vars, app_vars>>
    \/ DlCheckAfterDownload /\ UNCHANGED <<fetch, ff, panel, set_vars, fmt_vars, hist_vars, pp_vars, app_vars>>
    \/ DlResolve /\ UNCHANGED <<fetch, ff, panel, set_vars, fmt_vars, hist_vars, pp_vars, app_vars>>

ProgressSpecInit ==
    /\ FormatsIdle
    /\ HistoryEmpty
    /\ DownloaderInit
    /\ PostprocessNew(FALSE)
    /\ FsEmpty
    /\ AppUnused

SpecProgress == ProgressSpecInit /\ [][ProgressNext]_vars

\* One download() call that is not cancelled, with the postprocessor hook:
\* the library writes the output and its postprocessors report.
PostprocessNext ==
    \/ (\E audio_only \in BOOLEAN : DownloadCall(audio_only))
          /\ UNCHANGED <<fetch, ff, panel, set_vars, fmt_vars, hist_vars, pp_vars, app_vars>>
    \/ DlReset /\ UNCHANGED <<fetch, ff, panel, set_vars, fmt_vars, hist_vars, pp_vars, app_vars>>
    \/ DlInfoReturns /\ UNCHANGED <<fetch, ff, panel, set_vars, fmt_vars, hist_vars, pp_vars, app_vars>>
    \/ DlCheckBeforeDownload /\ UNCHANGED <<fetch, ff, panel, set_vars, fmt_vars, hist_vars, pp_vars, app_vars>>
    \/ LibWritesOutput /\ UNCHANGED <<fetch, ff, panel, set_vars, fmt_vars, hist_vars, app_vars>>
    \/ DlPostprocessHook /\ UNCHANGED <<fetch, ff, panel, set_vars, fmt_vars, hist_vars, app_vars>>
    \/ LibReturns /\ UNCHANGED <<fetch, ff, panel, set_vars, fmt_vars, hist_vars, pp_vars, app_vars>>
    \/ DlCheckAfterDownload /\ UNCHANGED <<fetch, ff, panel, set_vars, fmt_vars, hist_vars, pp_vars, app_vars>>
    \/ DlResolve /\ UNCHANGED <<fetch, ff, panel, set_vars, fmt_vars, hist_vars, pp_vars, app_vars>>

PostprocessSpecInit ==
    /\ FormatsIdle
    /\ HistoryEmpty
    /\ DownloaderNew(FALSE)
    /\ \E cb \in BOOLEAN : PostprocessNew(cb)
    /\ FsEmpty
    /\ AppUnused

SpecPostprocess == PostprocessSpecInit /\ [][PostprocessNext]_vars

\* The application: main() checks the dependencies and builds the window;
\* the user edits the URL and clicks Download and Cancel, the worker threads
\* run, and the UI thread runs the scheduled calls in order. The library's
\* partial files are left to SpecDownloader.
OnDownloadThread == dlthread_pc = "download"

Next ==
    \/ DepsInstalled /\ UNCHANGED <<fetch, ff, panel, set_vars, fmt_vars, hist_vars, dl_vars, pp_vars, fs_vars, win_vars>>
    \/ DepsDeclined /\ UNCHANGED <<fetch, ff, panel, set_vars, fmt_vars, hist_vars, dl_vars, pp_vars, fs_vars, win_vars>>
    \/ DepsAccepted /\ UNCHANGED <<fetch, ff, panel, set_vars, fmt_vars, hist_vars, dl_vars, pp_vars, fs_vars, win_vars>>
    \/ InstVerify /\ UNCHANGED <<fetch, ff, panel, set_vars, fmt_vars, hist_vars, dl_vars, pp_vars, fs_vars, win_vars>>
    \/ InstPlatform /\ UNCHANGED <<fetch, ff, panel, set_vars, fmt_vars, hist_vars, dl_vars, pp_vars, fs_vars, win_vars>>
    \/ InstRetrieve /\ UNCHANGED <<fetch, ff, panel, set_vars, fmt_vars, hist_vars, dl_vars, pp_vars, fs_vars, win_vars>>
    \/ InstExtract /\ UNCHANGED <<fetch, ff, panel, set_vars, fmt_vars, hist_vars, dl_vars, pp_vars, fs_vars, win_vars>>
    \/ InstCopy /\ UNCHANGED <<fetch, ff, panel, set_vars, fmt_vars, hist_vars, dl_vars, pp_vars, fs_vars, win_vars>>
    \/ InstJoin /\ UNCHANGED <<fetch, ff, panel, set_vars, fmt_vars, hist_vars, dl_vars, pp_vars, fs_vars, win_vars>>
    \/ EditUrl /\ UNCHANGED <<fetch, ff, panel, set_vars, fmt_vars, hist_vars, dl_vars, pp_vars, fs_vars, inst_vars>>
    \/ StartDownload /\ UNCHANGED <<fetch, ff, panel, set_vars, fmt_vars, hist_vars, fs_vars, inst_vars>>
    \/ CheckAndDownload /\ UNCHANGED <<fetch, ff, panel, set_vars, fmt_vars, hist_vars, dl_vars, pp_vars, fs_vars, inst_vars>>
    \/ RunProceedDownload /\ UNCHANGED <<fetch, ff, panel, set_vars, fmt_vars, hist_vars, dl_vars, pp_vars, fs_vars, inst_vars>>
    \/ RunAskOverwrite /\ UNCHANGED <<fetch, ff, panel, set_vars, fmt_vars, hist_vars, dl_vars, pp_vars, fs_vars, inst_vars>>
    \/ RunUpdateProgressUi /\ UNCHANGED <<fetch, ff, panel, set_vars, fmt_vars, hist_vars, dl_vars, pp_vars, fs_vars, inst_vars>>
    \/ RunOnDownloadComplete /\ UNCHANGED <<fetch, ff, set_vars, fmt_vars, dl_vars, pp_vars, fs_vars, inst_vars>>
    \/ CancelClick /\ UNCHANGED <<fetch, ff, panel, set_vars, fmt_vars, hist_vars, pp_vars, inst_vars>>
    \/ DownloadVideoCalls /\ UNCHANGED <<fetch, ff, panel, set_vars, fmt_vars, hist_vars, pp_vars, inst_vars>>
    \/ DownloadVideoReturns /\ UNCHANGED <<fetch, ff, panel, set_vars, fmt_vars, hist_vars, pp_vars, fs_vars, inst_vars>>
    \/ OnDownloadThread /\ DlReset /\ UNCHANGED <<fetch, ff, panel, set_vars, fmt_vars, hist_vars, pp_vars, app_vars>>
    \/ OnDownloadThread /\ DlInfoReturns /\ UNCHANGED <<fetch, ff, panel, set_vars, fmt_vars, hist_vars, pp_vars, app_vars>>
    \/ OnDownloadThread /\ DlInfoRaises /\ UNCHANGED <<fetch, ff, panel, set_vars, fmt_vars, hist_vars, pp_vars, app_vars>>
    \/ OnDownloadThread /\ DlCheckBeforeDownload /\ UNCHANGED <<fetch, ff, panel, set_vars, fmt_vars, hist_vars, pp_vars, app_vars>>
    \/ /\ OnDownloadThread
       /\ DlProgressHook
       /\ on_progress(hook_last'.forwarded, progress')
       /\ UNCHANGED <<fetch, ff, panel, set_vars, fmt_vars, hist_vars, pp_vars, inst_vars, url_entry, widget_vars, chk_pc, chk_url,
                      dlthread_pc, dlthread_url, attempts, overwrite_of>>
    \/ OnDownloadThread /\ LibRaises /\ UNCHANGED <<fetch, ff, panel, set_vars, fmt_vars, hist_vars, pp_vars, app_vars>>
    \/ OnDownloadThread /\ LibReturns /\ UNCHANGED <<fetch, ff, panel, set_vars, fmt_vars, hist_vars, pp_vars, app_vars>>
    \/ OnDownloadThread /\ DlCheckAfterDownload /\ UNCHANGED <<fetch, ff, panel, set_vars, fmt_vars, hist_vars, pp_vars, app_vars>>
    \/ OnDownloadThread /\ DlResolve /\ UNCHANGED <<fetch, ff, panel, set_vars, fmt_vars, hist_vars, pp_vars, app_vars>>
    \/ OnDownloadThread /\ DlExcept /\ UNCHANGED <<fetch, ff, panel, set_vars, fmt_vars, hist_vars, pp_vars, app_vars>>

AppInit ==
    /\ FormatsIdle
    /\ HistoryEmpty
    /\ DownloaderNew(FALSE)
    /\ PostprocessNew(FALSE)
    /\ FsEmpty
    /\ InstInit
    /\ WindowInit
    /\ SettingsUnused
    /\ PanelNew
    /\ FfmpegUnused
    /\ FetchUnused

Spec == AppInit /\ [][Next]_vars

\* The steps of the UI thread that Tk's main loop runs by itself: the calls
\* scheduled with after(0, ...), the answer to the modal overwrite dialog
\* included.
UiThreadStep ==
    \/ RunProceedDownload /\ UNCHANGED <<fetch, ff, panel, set_vars, fmt_vars, hist_vars, dl_vars, pp_vars, fs_vars, inst_vars>>
    \/ RunAskOverwrite /\ UNCHANGED <<fetch, ff, panel, set_vars, fmt_vars, hist_vars, dl_vars, pp_vars, fs_vars, inst_vars>>
    \/ RunUpdateProgressUi /\ UNCHANGED <<fetch, ff, panel, set_vars, fmt_vars, hist_vars, dl_vars, pp_vars, fs_vars, inst_vars>>
    \/ RunOnDownloadComplete /\ UNCHANGED <<fetch, ff, set_vars, fmt_vars, dl_vars, pp_vars, fs_vars, inst_vars>>

\* The steps of the two worker threads of an attempt: check_and_download,
\* and _download_video with the phases of download() that are its own.
WorkerThreadStep ==
    \/ CheckAndDownload /\ UNCHANGED <<fetch, ff, panel, set_vars, fmt_vars, hist_vars, dl_vars, pp_vars, fs_vars, inst_vars>>
    \/ DownloadVideoCalls /\ UNCHANGED <<fetch, ff, panel, set_vars, fmt_vars, hist_vars, pp_vars, inst_vars>>
    \/ DownloadVideoReturns /\ UNCHANGED <<fetch, ff, panel, set_vars, fmt_vars, hist_vars, pp_vars, fs_vars, inst_vars>>
    \/ OnDownloadThread /\ DlReset /\ UNCHANGED <<fetch, ff, panel, set_vars, fmt_vars, hist_vars, pp_vars, app_vars>>
    \/ OnDownloadThread /\ DlCheckBeforeDownload /\ UNCHANGED <<fetch, ff, panel, set_vars, fmt_vars, hist_vars, pp_vars, app_vars>>
    \/ OnDownloadThread /\ DlCheckAfterDownload /\ UNCHANGED <<fetch, ff, panel, set_vars, fmt_vars, hist_vars, pp_vars, app_vars>>
    \/ OnDownloadThread /\ DlResolve /\ UNCHANGED <<fetch, ff, panel, set_vars, fmt_vars, hist_vars, pp_vars, app_vars>>
    \/ OnDownloadThread /\ DlExcept /\ UNCHANGED <<fetch, ff, panel, set_vars, fmt_vars, hist_vars, pp_vars, app_vars>>

\* A library call of download() returns or raises: either extract_info
\* call ends, by itself or by an error its progress hook raised.
LibraryCallEnds ==
    \/ OnDownloadThread /\ DlInfoReturns /\ UNCHANGED <<fetch, ff, panel, set_vars, fmt_vars, hist_vars, pp_vars, app_vars>>
    \/ OnDownloadThread /\ DlInfoRaises /\ UNCHANGED <<fetch, ff, panel, set_vars, fmt_vars, hist_vars, pp_vars, app_vars>>
    \/ OnDownloadThread /\ LibRaises /\ UNCHANGED <<fetch, ff, panel, set_vars, fmt_vars, hist_vars, pp_vars, app_vars>>
    \/ OnDownloadThread /\ LibReturns /\ UNCHANGED <<fetch, ff, panel, set_vars, fmt_vars, hist_vars, pp_vars, app_vars>>
    \/ /\ OnDownloadThread
       /\ DlProgressHook
       /\ dl_pc' = "except"
       /\ on_progress(hook_last'.forwarded, progress')
       /\ UNCHANGED <<fetch, ff, panel, set_vars, fmt_vars, hist_vars, pp_vars, inst_vars, url_entry, widget_vars, chk_pc, chk_url,
                      dlthread_pc, dlthread_url, attempts, overwrite_of>>

\* The application with its scheduling: Tk's main loop runs every call that
\* waits in its queue, the operating system runs every started thread, and
\* every library call returns or raises.
FairSpec ==
    /\ AppInit
    /\ [][Next]_vars
    /\ WF_vars(UiThreadStep)
    /\ WF_vars(WorkerThreadStep)
    /\ WF_vars(LibraryCallEnds)

\* An AppSettings object is saved and loaded back.
SettingsNext ==
    \/ SettingsSave /\ UNCHANGED <<fetch, ff, panel, fmt_vars, hist_vars, dl_vars, pp_vars, fs_vars, app_vars>>
    \/ SettingsLoad /\ UNCHANGED <<fetch, ff, panel, fmt_vars, hist_vars, dl_vars, pp_vars, fs_vars, app_vars>>

SettingsSpecInit ==
    /\ FormatsIdle
    /\ HistoryEmpty
    /\ DownloaderUnused
    /\ InstOver
    /\ WindowUnused
    /\ SettingsInit
    /\ PanelNew
    /\ FfmpegUnused
    /\ FetchUnused

SpecSettings == SettingsSpecInit /\ [][SettingsNext]_vars

\* The history store with its panel: calls of the store, and refreshes.
PanelNext ==
    \/ AddEntry /\ UNCHANGED <<fetch, ff, panel, set_vars, fmt_vars, dl_vars, pp_vars, fs_vars, app_vars>>
    \/ RemoveEntry /\ UNCHANGED <<fetch, ff, panel, set_vars, fmt_vars, dl_vars, pp_vars, fs_vars, app_vars>>
    \/ Clear /\ UNCHANGED <<fetch, ff, panel, set_vars, fmt_vars, dl_vars, pp_vars, fs_vars, app_vars>>
    \/ Refresh /\ UNCHANGED <<fetch, ff, set_vars, fmt_vars, dl_vars, pp_vars, fs_vars, app_vars>>

SpecPanel == HistorySpecInit /\ [][PanelNext]_vars

\* The store and the settings of one data directory, which can be written
\* or cannot.
PersistenceNext ==
    \/ AddEntry /\ UNCHANGED <<fetch, ff, panel, set_vars, fmt_vars, dl_vars, pp_vars, fs_vars, app_vars>>
    \/ RemoveEntry /\ UNCHANGED <<fetch, ff, panel, set_vars, fmt_vars, dl_vars, pp_vars, fs_vars, app_vars>>
    \/ Clear /\ UNCHANGED <<fetch, ff, panel, set_vars, fmt_vars, dl_vars, pp_vars, fs_vars, app_vars>>
    \/ SettingsSave /\ UNCHANGED <<fetch, ff, panel, fmt_vars, hist_vars, dl_vars, pp_vars, fs_vars, app_vars>>

PersistenceSpecInit ==
    /\ FormatsIdle
    /\ HistoryInit
    /\ DownloaderUnused
    /\ InstOver
    /\ WindowUnused
    /\ PanelNew
    /\ FfmpegUnused
    /\ FetchUnused
    /\ set_pc = "new"
    /\ settings \in {AppSettings(<<"a">>, <<>>), AppSettings(<<"a", "e-acute">>, <<"a">>)}
    /\ settings_file = <<>>
    /\ settings_disk_ok = hist_disk_ok
    /\ settings_raised = FALSE
    /\ settings_loaded = AppSettings(<<>>, <<>>)

SpecPersistence == PersistenceSpecInit /\ [][PersistenceNext]_vars

\* One call of find_ffmpeg on any platform and any set of installations.
FfmpegNext ==
    \/ FindFfmpeg /\ UNCHANGED <<fetch, panel, set_vars, fmt_vars, hist_vars, dl_vars, pp_vars, fs_vars, app_vars>>

FfmpegSpecInit ==
    /\ FormatsIdle
    /\ HistoryEmpty
    /\ DownloaderUnused
    /\ InstOver
    /\ WindowUnused
    /\ SettingsUnused
    /\ PanelNew
    /\ FfmpegInit
    /\ FetchUnused

SpecFfmpeg == FfmpegSpecInit /\ [][FfmpegNext]_vars

\* The URL field changes and the fetch threads answer in any order.
FetchNext ==
    \/ OnUrlChanged /\ UNCHANGED <<ff, panel, set_vars, fmt_vars, hist_vars, dl_vars, pp_vars, fs_vars, app_vars>>
    \/ FetchFormats /\ UNCHANGED <<ff, panel, set_vars, fmt_vars, hist_vars, dl_vars, pp_vars, fs_vars, app_vars>>
    \/ RunUpdateFormatCombo /\ UNCHANGED <<ff, panel, set_vars, fmt_vars, hist_vars, dl_vars, pp_vars, fs_vars, app_vars>>

FetchSpecInit ==
    /\ FormatsIdle
    /\ HistoryEmpty
    /\ DownloaderUnused
    /\ InstOver
    /\ WindowUnused
    /\ SettingsUnused
    /\ PanelNew
    /\ FfmpegUnused
    /\ FetchNew

SpecFetch == FetchSpecInit /\ [][FetchNext]_vars

====
